---- MODULE Spec2Model ----
(***************************************************************************)
(* A model of the vault engine of the executive assistant: the note store  *)
(* and link graph (integrations/knowledge.py), the indexer and its search  *)
(* (integrations/vault_indexer.py) and the merged retrieval                *)
(* (integrations/vault_retriever.py).                                      *)
(*                                                                         *)
(* Text is modelled as Python sees it: a str is a sequence of              *)
(* one-character strings, so that regular expressions, strip(), split()    *)
(* and the case-insensitive comparisons are computed character by          *)
(* character.                                                              *)
(***************************************************************************)
EXTENDS Integers, Sequences, FiniteSets, TLC

\* ------------------------------------------------------------------ text

NL == "\n"

\* The characters str.strip(), str.split() and the regex class \s treat as
\* white space (those of the model's alphabet).
Whitespace == {" ", "\n", "\t", "\r"}

UpperChars == <<"A","B","C","D","E","F","G","H","I","J","K","L","M",
                "N","O","P","Q","R","S","T","U","V","W","X","Y","Z">>
LowerChars == <<"a","b","c","d","e","f","g","h","i","j","k","l","m",
                "n","o","p","q","r","s","t","u","v","w","x","y","z">>
Letters == {UpperChars[i] : i \in 1..26} \cup {LowerChars[i] : i \in 1..26}
Digits == {"0","1","2","3","4","5","6","7","8","9"}

\* The grave accent (code 96), which a code fence is made of; a string of the
\* module cannot hold the character itself.
Backtick == "BACKTICK"

\* The printable ASCII characters in code order: Printable[i] has code 31 + i.
Printable ==
  <<" ","!","\"","#","$","%","&","'","(",")","*","+",",","-",".","/",
    "0","1","2","3","4","5","6","7","8","9",":",";","<","=",">","?",
    "@","A","B","C","D","E","F","G","H","I","J","K","L","M","N","O",
    "P","Q","R","S","T","U","V","W","X","Y","Z","[","\\","]","^","_",
    Backtick,"a","b","c","d","e","f","g","h","i","j","k","l","m","n","o",
    "p","q","r","s","t","u","v","w","x","y","z","{","|","}","~">>

\* ord(c)
OrdOf == [c \in {Printable[i] : i \in 1..Len(Printable)} |->
            31 + (CHOOSE i \in 1..Len(Printable) : Printable[i] = c)]
Ord(c) ==
  IF c = "\t" THEN 9
  ELSE IF c = "\n" THEN 10
  ELSE IF c = "\r" THEN 13
  ELSE OrdOf[c]

\* str.lower() on one character and on a str
LowerOf == [c \in {UpperChars[i] : i \in 1..26} |->
              LowerChars[CHOOSE i \in 1..26 : UpperChars[i] = c]]
LowerCh(c) == IF c \in DOMAIN LowerOf THEN LowerOf[c] ELSE c
Lower(s) == [i \in 1..Len(s) |-> LowerCh(s[i])]

\* s[i-1:] in Python terms starts with p (positions here count from 1)
StartsAt(s, i, p) ==
  /\ i >= 1
  /\ i + Len(p) - 1 <= Len(s)
  /\ \A k \in 1..Len(p) : s[i + k - 1] = p[k]

\* str.startswith / str.endswith / the in operator on str
StartsWith(s, p) == StartsAt(s, 1, p)
EndsWith(s, p) == Len(p) <= Len(s) /\ StartsAt(s, Len(s) - Len(p) + 1, p)
Contains(s, p) == \E i \in 1..(Len(s) - Len(p) + 1) : StartsAt(s, i, p)

\* str.find(p, from): the first position >= from where p starts, 0 when none
Find(s, p, from) ==
  IF \E i \in from..(Len(s) - Len(p) + 1) : StartsAt(s, i, p)
  THEN CHOOSE i \in from..(Len(s) - Len(p) + 1) :
         /\ StartsAt(s, i, p)
         /\ \A j \in from..(i - 1) : ~StartsAt(s, j, p)
  ELSE 0

\* s < t as Python compares str: lexicographically by code point
RECURSIVE StrLess(_, _)
StrLess(s, t) ==
  IF t = <<>> THEN FALSE
  ELSE IF s = <<>> THEN TRUE
  ELSE IF Head(s) = Head(t) THEN StrLess(Tail(s), Tail(t))
  ELSE Ord(Head(s)) < Ord(Head(t))

\* The end (exclusive) of the longest run of characters of set from i on
RECURSIVE RunEndIn(_, _, _)
RunEndIn(s, i, set) ==
  IF i > Len(s) \/ s[i] \notin set THEN i ELSE RunEndIn(s, i + 1, set)

\* The end (exclusive) of the longest run of characters not in stop from i on
RECURSIVE RunEnd(_, _, _)
RunEnd(s, i, stop) ==
  IF i > Len(s) \/ s[i] \in stop THEN i ELSE RunEnd(s, i + 1, stop)

\* str.rstrip(), str.lstrip(), str.strip()
RECURSIVE RStrip(_)
RStrip(s) ==
  IF s = <<>> \/ s[Len(s)] \notin Whitespace THEN s
  ELSE RStrip(SubSeq(s, 1, Len(s) - 1))

LStrip(s) == SubSeq(s, RunEndIn(s, 1, Whitespace), Len(s))
Strip(s) == LStrip(RStrip(s))

\* str.strip(c) for a single character c
RECURSIVE RStripCh(_, _)
RStripCh(s, c) ==
  IF s = <<>> \/ s[Len(s)] # c THEN s ELSE RStripCh(SubSeq(s, 1, Len(s) - 1), c)
StripCh(s, c) == LET r == RStripCh(s, c) IN SubSeq(r, RunEndIn(r, 1, {c}), Len(r))

\* str.split(c) for a single character c: n separators give n + 1 pieces
RECURSIVE SplitOn(_, _)
SplitOn(s, c) ==
  LET i == RunEnd(s, 1, {c})
  IN IF i > Len(s) THEN <<s>>
     ELSE <<SubSeq(s, 1, i - 1)>> \o SplitOn(SubSeq(s, i + 1, Len(s)), c)

\* str.split(): the maximal runs of non-white-space characters
RECURSIVE Words(_)
Words(s) ==
  LET a == RunEndIn(s, 1, Whitespace)
      b == RunEnd(s, a, Whitespace)
  IN IF a > Len(s) THEN <<>>
     ELSE <<SubSeq(s, a, b - 1)>> \o Words(SubSeq(s, b, Len(s)))

\* sep.join(parts)
RECURSIVE Join(_, _)
Join(parts, sep) ==
  IF parts = <<>> THEN <<>>
  ELSE IF Len(parts) = 1 THEN parts[1]
  ELSE parts[1] \o sep \o Join(Tail(parts), sep)

\* s[:n]
Take(s, n) == SubSeq(s, 1, IF n < Len(s) THEN n ELSE Len(s))

\* The elements of a sequence
Range(q) == {q[i] : i \in 1..Len(q)}

\* q[::-1]
Reverse(q) == [i \in 1..Len(q) |-> q[Len(q) + 1 - i]]

\* ------------------------------------------------- the regular expressions

\* One match of WIKILINK_PATTERN, \[\[([^\]|]+)(?:\|[^\]]+)?\]\], tried at
\* position i: the target is the longest run of characters other than ] and |
\* after [[ (the run is never shortened with success: what follows a shorter
\* run is a character of the run), then ]] or |alias]].
WikiMatch(s, i) ==
  LET j == RunEnd(s, i + 2, {"]", "|"})
      k == RunEnd(s, j + 1, {"]"})
      no == [ok |-> FALSE, target |-> <<>>, end |-> i + 1]
  IN IF ~StartsAt(s, i, <<"[", "[">>) \/ j = i + 2 THEN no
     ELSE IF StartsAt(s, j, <<"]", "]">>)
       THEN [ok |-> TRUE, target |-> SubSeq(s, i + 2, j - 1), end |-> j + 2]
     ELSE IF j <= Len(s) /\ s[j] = "|" /\ k > j + 1 /\ StartsAt(s, k, <<"]", "]">>)
       THEN [ok |-> TRUE, target |-> SubSeq(s, i + 2, j - 1), end |-> k + 2]
     ELSE no

\* WIKILINK_PATTERN.findall(content): the targets, in order, of the
\* non-overlapping matches found scanning from the left
RECURSIVE LinksFrom(_, _)
LinksFrom(s, i) ==
  IF i > Len(s) THEN <<>>
  ELSE LET m == WikiMatch(s, i)
       IN IF m.ok THEN <<m.target>> \o LinksFrom(s, m.end)
          ELSE LinksFrom(s, i + 1)

extract_links(content) == LinksFrom(content, 1)

\* TAG_PATTERN.findall(content), #([a-zA-Z][a-zA-Z0-9_/-]+): a letter and at
\* least one more tag character after the #
TagChars == Letters \cup Digits \cup {"_", "/", "-"}

RECURSIVE TagsFrom(_, _)
TagsFrom(s, i) ==
  IF i > Len(s) THEN <<>>
  ELSE LET e == RunEndIn(s, i + 2, TagChars)
       IN IF s[i] = "#" /\ i + 1 <= Len(s) /\ s[i + 1] \in Letters /\ e > i + 2
          THEN <<SubSeq(s, i + 1, e - 1)>> \o TagsFrom(s, e)
          ELSE TagsFrom(s, i + 1)

extract_tags(content) == TagsFrom(content, 1)

\* One match of HEADING_PATTERN, ^(#{1,6})\s+(.+)$ with re.MULTILINE, tried at
\* the line start i: 1..6 marks, then white space (which may run over line
\* ends) given back until a character other than a line end follows it, then
\* the rest of that line.
HeadingMatch(s, i) ==
  LET h == RunEndIn(s, i, {"#"}) - i
      w == RunEndIn(s, i + h, Whitespace) - (i + h)
      ks == {k \in 1..w : i + h + k <= Len(s) /\ s[i + h + k] # NL}
      k == CHOOSE x \in ks : \A y \in ks : y <= x
      p == i + h + k
      e == RunEnd(s, p, {NL})
  IN IF h \in 1..6 /\ ks # {}
     THEN [ok |-> TRUE, level |-> h, text |-> Strip(SubSeq(s, p, e - 1)), end |-> e]
     ELSE [ok |-> FALSE, level |-> 0, text |-> <<>>, end |-> i + 1]

IsLineStart(s, i) == i = 1 \/ s[i - 1] = NL

RECURSIVE HeadingsFrom(_, _)
HeadingsFrom(s, i) ==
  IF i > Len(s) THEN <<>>
  ELSE LET m == HeadingMatch(s, i)
       IN IF IsLineStart(s, i) /\ m.ok
          THEN <<[level |-> m.level, text |-> m.text]>> \o HeadingsFrom(s, m.end)
          ELSE HeadingsFrom(s, i + 1)

extract_headings(content) == HeadingsFrom(content, 1)

\* DATE_PATTERN, (\d{4}-\d{2}-\d{2}), at position i
DateAt(s, i) ==
  /\ i + 9 <= Len(s)
  /\ \A k \in {0, 1, 2, 3, 5, 6, 8, 9} : s[i + k] \in Digits
  /\ s[i + 4] = "-" /\ s[i + 7] = "-"

\* None, as the code's date: the empty str stands for it (both are falsy)
None == <<>>

\* DATE_PATTERN.search(s): group 1 of the first match, None when there is none
DateSearch(s) ==
  IF \E i \in 1..Len(s) : DateAt(s, i)
  THEN LET i == CHOOSE x \in 1..Len(s) : DateAt(s, x) /\ \A y \in 1..(x - 1) : ~DateAt(s, y)
       IN SubSeq(s, i, i + 9)
  ELSE None

\* FRONTMATTER_PATTERN.match(content), ^---\s*\n(.*?)\n---\s*\n with re.DOTALL:
\* p is the line end that closes the opening marker (the greedy \s* tries the
\* last candidate first), e the line end before the closing marker (the lazy
\* group tries the first candidate first).
FmClose(s, e) ==
  /\ StartsAt(s, e, <<NL, "-", "-", "-">>)
  /\ \E q \in (e + 4)..Len(s) : s[q] = NL /\ \A r \in (e + 4)..(q - 1) : s[r] \in Whitespace

FmOpen(s, p) ==
  /\ s[p] = NL
  /\ \A q \in 4..(p - 1) : s[q] \in Whitespace
  /\ \E e \in (p + 1)..Len(s) : FmClose(s, e)

FrontmatterBody(s) ==
  IF StartsWith(s, <<"-", "-", "-">>) /\ \E p \in 4..Len(s) : FmOpen(s, p)
  THEN LET p == CHOOSE x \in 4..Len(s) : FmOpen(s, x) /\ \A y \in (x + 1)..Len(s) : ~FmOpen(s, y)
           e == CHOOSE x \in (p + 1)..Len(s) : FmClose(s, x) /\ \A y \in (p + 1)..(x - 1) : ~FmClose(s, y)
       IN [ok |-> TRUE, body |-> SubSeq(s, p + 1, e - 1)]
  ELSE [ok |-> FALSE, body |-> <<>>]

\* extract_frontmatter: the dict of the key: value lines of the block, a
\* later line of the same key replacing an earlier one
FmKey(line) == Strip(SubSeq(line, 1, RunEnd(line, 1, {":"}) - 1))
FmValue(line) ==
  StripCh(StripCh(Strip(SubSeq(line, RunEnd(line, 1, {":"}) + 1, Len(line))), "\""), "'")

extract_frontmatter(content) ==
  LET m == FrontmatterBody(content)
      lines == IF m.ok THEN SplitOn(m.body, NL) ELSE <<>>
      kv == {i \in 1..Len(lines) : ":" \in Range(lines[i])}
      keys == {FmKey(lines[i]) : i \in kv}
  IN [key \in keys |->
        LET last == CHOOSE i \in kv : FmKey(lines[i]) = key
                      /\ \A j \in kv : FmKey(lines[j]) = key => j <= i
        IN FmValue(lines[last])]

\* ------------------------------------------------------------- the state

VARIABLES
  disk,       \* the note files: path -> content, Absent or Undecodable
  scanOrder,  \* the order in which a directory walk yields the files
  aliased,    \* whether the two vault roots of the code are one directory
  index,      \* the persisted index file (VAULT_INDEX)
  clock,      \* datetime.now(), as a count of the builds so far
  last,       \* the last command and what it returned
  nwrites,    \* how many NoteWriter commands have run
  writer      \* the build that is writing the index file, if any

vars == <<disk, scanOrder, aliased, index, clock, last, nwrites, writer>>

\* No file at the path, and a file whose bytes are not UTF-8
Absent == <<"ABSENT">>
Undecodable == <<"UNDECODABLE">>

\* The two places the code looks for the vaults: knowledge.py names
\* /home/executive-assistant/workspace/vaults, config.py (which the indexer
\* imports) /home/iris/executive-assistant/workspace/vaults. Whether they are
\* one directory (a link from one to the other) is the deployment's choice.
KbRoot == "kb"
CfgRoot == "cfg"
Res(root) == IF aliased THEN KbRoot ELSE root

File(root, vault, dir, stem) ==
  [root |-> root, vault |-> vault, dir |-> dir, stem |-> stem]
NoPath == File("", "", "", <<>>)

MdExt == <<".", "m", "d">>

\* The note names of the model
nA == <<"A">>
nB == <<"B">>
nb == <<"b">>
nC == <<"C">>
nZ == <<"Z">>
nAB == <<"A", "B">>
nIndex == <<"I", "n", "d", "e", "x">>
nDated == <<"2", "0", "2", "4", "-", "0", "1", "-", "0", "5">>

\* The directories of a vault, as str(path) spells them
DirChars(dir) == IF dir = "" THEN <<>> ELSE <<"s", "u", "b", "/">>
\* str(path.relative_to(vault_path))
RelPath(f) == DirChars(f.dir) \o f.stem \o MdExt

\* vault_path.rglob("*.md"): the files present below the vault, as the walk
\* yields them
rglob(root, vault) ==
  SelectSeq(scanOrder,
            LAMBDA f : f.root = Res(root) /\ f.vault = vault /\ disk[f] # Absent)

\* vault_path.glob("*.md"): the files present in the vault's top directory
glob(root, vault) == SelectSeq(rglob(root, vault), LAMBDA f : f.dir = "")

\* [g(x) for x in q]
Map(q, g(_)) == [i \in 1..Len(q) |-> g(q[i])]

\* ----------------------------------------------------------- knowledge.py

\* The file that vault_path / f"{name}.md" names: a name may hold directories,
\* and from the iris vault "../samuel/" leads into the other vault
ToSamuel == <<".", ".", "/", "s", "a", "m", "u", "e", "l", "/">>
SubDir == <<"s", "u", "b", "/">>
PathOf(vault, name) ==
  LET leaves == vault = "iris" /\ StartsWith(name, ToSamuel)
      rest == IF leaves THEN SubSeq(name, Len(ToSamuel) + 1, Len(name)) ELSE name
      below == StartsWith(rest, SubDir)
  IN File(KbRoot, IF leaves THEN "samuel" ELSE vault,
          IF below THEN "sub" ELSE "",
          IF below THEN SubSeq(rest, Len(SubDir) + 1, Len(rest)) ELSE rest)

\* find_note within one vault: the first file named name.md; else, for a name
\* that ends in .md, the first file named name; else the first file whose
\* stem equals name ignoring case. A name that holds directories is matched
\* as a path from the vault. (Names here hold no glob metacharacter.)
FindIn(vault, name) ==
  LET files == rglob(KbRoot, vault)
      there == PathOf(vault, name) \in DOMAIN disk /\ disk[PathOf(vault, name)] # Absent
      exact == IF "/" \in Range(name)
               THEN IF there THEN <<PathOf(vault, name)>> ELSE <<>>
               ELSE SelectSeq(files, LAMBDA f : f.stem = name)
      bare == SubSeq(name, 1, Len(name) - Len(MdExt))
      asis == IF ~EndsWith(name, MdExt) THEN <<>>
              ELSE IF "/" \in Range(name)
              THEN IF PathOf(vault, bare) \in DOMAIN disk
                        /\ disk[PathOf(vault, bare)] # Absent
                   THEN <<PathOf(vault, bare)>> ELSE <<>>
              ELSE SelectSeq(files, LAMBDA f : f.stem \o MdExt = name)
      ci == SelectSeq(files, LAMBDA f : Lower(f.stem) = Lower(name))
  IN IF exact # <<>> THEN exact[1]
     ELSE IF asis # <<>> THEN asis[1]
     ELSE IF ci # <<>> THEN ci[1]
     ELSE NoPath

\* A search of the vaults that tries samuel first
find_note_samuel_first(name, vault) ==
  LET n == Strip(name)
  IN IF vault # "" THEN FindIn(vault, n)
     ELSE IF FindIn("samuel", n) # NoPath THEN FindIn("samuel", n)
     ELSE FindIn("iris", n)

\* find_note(name, vault): vault "" stands for None (iris is tried first)
find_note(name, vault) ==
  LET n == Strip(name)
  IN IF vault # "" THEN FindIn(vault, n)
     ELSE IF FindIn("iris", n) # NoPath THEN FindIn("iris", n)
     ELSE FindIn("samuel", n)

\* read_note(name, vault): a vault other than 'samuel' is read as iris; the
\* read of an undecodable file raises
read_note(name, vault) ==
  LET vault_path == IF vault = "" THEN "" ELSE IF vault = "samuel" THEN "samuel" ELSE "iris"
      path == find_note(name, vault_path)
  IN IF path = NoPath THEN [kind |-> "error"]
     ELSE IF disk[path] = Undecodable THEN [kind |-> "raise"]
     ELSE [kind |-> "ok", name |-> path.stem, path |-> RelPath(path),
           vault |-> path.vault, content |-> disk[path],
           links |-> extract_links(disk[path]),
           link_count |-> Len(extract_links(disk[path]))]

\* The vaults a command with the optional argument vault walks, in order
VaultsOf(vault) ==
  (IF vault \in {"samuel", ""} THEN <<"samuel">> ELSE <<>>)
  \o (IF vault \in {"iris", ""} THEN <<"iris">> ELSE <<>>)

RECURSIVE WalkAll(_, _)
WalkAll(root, vaults) ==
  IF vaults = <<>> THEN <<>> ELSE rglob(root, Head(vaults)) \o WalkAll(root, Tail(vaults))

NoteRef(f) == [name |-> f.stem, path |-> RelPath(f), vault |-> f.vault]

\* get_backlinks' test without the two lower() calls
LinksToExactCase(f, name) ==
  /\ disk[f] # Undecodable
  /\ \E l \in Range(extract_links(disk[f])) : l = name

\* Whether a file links to name: some link equals it ignoring case
LinksTo(f, name) ==
  /\ disk[f] # Undecodable
  /\ \E l \in Range(extract_links(disk[f])) : Lower(l) = Lower(name)

\* get_backlinks(name, vault)
get_backlinks(name, vault) ==
  Map(SelectSeq(WalkAll(KbRoot, VaultsOf(vault)), LAMBDA f : LinksTo(f, name)), NoteRef)

\* A graph that lists only the references whose target is an existing note
get_graph_resolving(name) ==
  LET note == read_note(name, "")
      backlinks == get_backlinks(name, "")
      resolved == SelectSeq(note.links, LAMBDA l : find_note(l, "") # NoPath)
  IN IF note.kind # "ok" THEN note
     ELSE [kind |-> "ok", name |-> note.name, vault |-> note.vault,
           outgoing_links |-> resolved,
           incoming_links |-> Map(backlinks, LAMBDA b : b.name),
           total_connections |-> Len(resolved) + Len(backlinks)]

\* get_graph(name)
get_graph(name) ==
  LET note == read_note(name, "")
      backlinks == get_backlinks(name, "")
  IN IF note.kind # "ok" THEN note
     ELSE [kind |-> "ok", name |-> note.name, vault |-> note.vault,
           outgoing_links |-> note.links,
           incoming_links |-> Map(backlinks, LAMBDA b : b.name),
           total_connections |-> Len(note.links) + Len(backlinks)]

\* The keys of a dict built in order: each key once, where it first came
RECURSIVE Dedupe(_)
Dedupe(q) ==
  IF q = <<>> THEN <<>>
  ELSE LET r == Dedupe(SubSeq(q, 1, Len(q) - 1))
       IN IF q[Len(q)] \in Range(r) THEN r ELSE Append(r, q[Len(q)])

\* The name the entry point is known by (find_orphans, line 292)
EntryPoint == <<"i", "n", "d", "e", "x">>

\* find_orphans() with the keys that line 292 spares left as a parameter:
\* only the top directory of the iris vault is looked at, and a note's link
\* to itself counts as a link to it
OrphansSparing(spared) ==
  LET files == glob(KbRoot, "iris")
      keys == Dedupe(Map(files, LAMBDA f : Lower(f.stem)))
      \* all_notes[key]: the stem of the last file with that key
      stemOf(key) ==
        LET is == {i \in 1..Len(files) : Lower(files[i].stem) = key}
        IN files[CHOOSE i \in is : \A j \in is : j <= i].stem
      linked == UNION {{Lower(l) : l \in Range(extract_links(disk[f]))} :
                         f \in {g \in Range(files) : disk[g] # Undecodable}}
  IN Map(SelectSeq(keys, LAMBDA k : k \notin linked /\ k \notin spared),
         LAMBDA k : [name |-> stemOf(k), vault |-> "iris"])

\* find_orphans() without line 292's test for the entry point
find_orphans_flagging_entry_point == OrphansSparing({})

\* find_orphans()
find_orphans == OrphansSparing({EntryPoint})

\* write_note(name, content): the path written is IRIS_VAULT/name.md
WritePath(name) == PathOf("iris", name)

\* The section heading append_to_note looks for, ^(##+ section.*)$ with
\* re.MULTILINE, tried at line start i: two or more marks, one space, the
\* section's text, then whatever the line goes on with.
SectionMatch(s, i, section) ==
  LET h == RunEndIn(s, i, {"#"}) - i
  IN IF h >= 2 /\ StartsAt(s, i + h, <<" ">> \o section)
     THEN [ok |-> TRUE, end |-> RunEnd(s, i + h + 1 + Len(section), {NL})]
     ELSE [ok |-> FALSE, end |-> 0]

SectionStarts(s, section) ==
  {i \in 1..Len(s) : IsLineStart(s, i) /\ SectionMatch(s, i, section).ok}

\* A search for the next heading line of any level, r'\n#+ '
NextHeadingAt(s, q) ==
  /\ q <= Len(s) /\ s[q] = NL
  /\ RunEndIn(s, q + 1, {"#"}) - (q + 1) >= 1
  /\ StartsAt(s, RunEndIn(s, q + 1, {"#"}), <<" ">>)

\* re.search(r'\n##+ ', existing[match.end():]): the line end before the next
\* line of two or more marks and a space
NextSectionAt(s, q) ==
  /\ q <= Len(s) /\ s[q] = NL
  /\ RunEndIn(s, q + 1, {"#"}) - (q + 1) >= 2
  /\ StartsAt(s, RunEndIn(s, q + 1, {"#"}), <<" ">>)

\* Where append_to_note puts the content under a section that was found: before
\* the line end that precedes the next section, or at the end
InsertPos(s, section) ==
  LET i == CHOOSE x \in SectionStarts(s, section) :
             \A y \in SectionStarts(s, section) : x <= y
      e == SectionMatch(s, i, section).end
      qs == {q \in e..Len(s) : NextSectionAt(s, q)}
  IN IF qs = {} THEN Len(s) + 1 ELSE CHOOSE q \in qs : \A r \in qs : q <= r

\* An append that puts the content right after the section's heading line
AppendTextAfterHeading(existing, content, section) ==
  IF section # <<>> /\ SectionStarts(existing, section) # {}
  THEN LET i == CHOOSE x \in SectionStarts(existing, section) :
                  \A y \in SectionStarts(existing, section) : x <= y
           e == SectionMatch(existing, i, section).end
       IN SubSeq(existing, 1, e - 1) \o <<NL, NL>> \o content \o <<NL>>
            \o SubSeq(existing, e, Len(existing))
  ELSE IF section # <<>>
  THEN RStrip(existing) \o <<NL, NL, "#", "#", " ">> \o section
         \o <<NL, NL>> \o content \o <<NL>>
  ELSE RStrip(existing) \o <<NL, NL>> \o content \o <<NL>>

\* An append that loses what followed the place of insertion
AppendTextDroppingTail(existing, content, section) ==
  IF section # <<>>
  THEN IF SectionStarts(existing, section) # {}
       THEN LET pos == InsertPos(existing, section)
            IN RStrip(SubSeq(existing, 1, pos - 1)) \o <<NL, NL>> \o content \o <<NL>>
       ELSE RStrip(existing) \o <<NL, NL, "#", "#", " ">> \o section
              \o <<NL, NL>> \o content \o <<NL>>
  ELSE RStrip(existing) \o <<NL, NL>> \o content \o <<NL>>

\* The new content append_to_note computes (lines 184-201); section <<>> stands
\* for None, and for '' which the code treats alike
AppendText(existing, content, section) ==
  IF section # <<>>
  THEN IF SectionStarts(existing, section) # {}
       THEN LET pos == InsertPos(existing, section)
            IN RStrip(SubSeq(existing, 1, pos - 1)) \o <<NL, NL>> \o content \o <<NL>>
                 \o SubSeq(existing, pos, Len(existing))
       ELSE RStrip(existing) \o <<NL, NL, "#", "#", " ">> \o section
              \o <<NL, NL>> \o content \o <<NL>>
  ELSE RStrip(existing) \o <<NL, NL>> \o content \o <<NL>>

\* add_link's link_text
LinkText(to_note) == <<"-", " ", "[", "[">> \o to_note \o <<"]", "]">>

\* ------------------------------------------------- the files of the model

fIndex == File(KbRoot, "iris", "", nIndex)
fA == File(KbRoot, "iris", "", nA)
fB == File(KbRoot, "iris", "", nB)
fZ == File(KbRoot, "iris", "", nZ)
fC == File(KbRoot, "samuel", "sub", nC)
fAB == File(KbRoot, "iris", "", nAB)
fSubB == File(KbRoot, "iris", "sub", nB)
fDated == File(KbRoot, "samuel", "", nDated)
fb == File(KbRoot, "iris", "", nb)

\* The same paths under the root of config.py
UnderCfg(f) == File(CfgRoot, f.vault, f.dir, f.stem)

AllFiles == <<fIndex, fA, fB, fZ, fC, fAB, fSubB, fDated, fb,
              UnderCfg(fB), UnderCfg(fC), UnderCfg(fAB), UnderCfg(fSubB),
              UnderCfg(fDated)>>

\* Note contents
tX == <<"x">>
tToB == <<"[", "[", "B", "]", "]">>
tSelf == <<"[", "[", "A", "]", "]", " ", "[", "[", "b", "|", "z", "]", "]">>

\* The notes of the indexed vaults
tTwoWords == <<"w"," ","w">>
tSubstrings == <<"B"," ","b"," ","#","b","b","\n","#","#"," ","B">>
tTwoLabels == <<"a","r","t"," ","j","o","b">>
tGoal == <<"g","o","a","l">>

\* ------------------------------------------------------- vault_indexer.py

\* A vault name as text
Chars(vault) == IF vault = "iris" THEN <<"i","r","i","s">> ELSE <<"s","a","m","u","e","l">>

\* The vault directories as config.py and knowledge.py spell them
CfgVaults == <<"/","h","o","m","e","/","i","r","i","s","/","e","x","e","c","u","t","i","v","e","-","a","s","s","i","s","t","a","n","t","/","w","o","r","k","s","p","a","c","e","/","v","a","u","l","t","s">>
KbVaults == <<"/","h","o","m","e","/","e","x","e","c","u","t","i","v","e","-","a","s","s","i","s","t","a","n","t","/","w","o","r","k","s","p","a","c","e","/","v","a","u","l","t","s">>
RootChars(root) == IF root = CfgRoot THEN CfgVaults ELSE KbVaults

\* str(path) for a file found under the root as spelled
PathStr(root, f) == RootChars(root) \o <<"/">> \o Chars(f.vault) \o <<"/">> \o RelPath(f)

\* The labels categorize_note gives
cJournal == <<"j","o","u","r","n","a","l">>
cTemplate == <<"t","e","m","p","l","a","t","e">>
cMeta == <<"m","e","t","a">>
cDrawing == <<"d","r","a","w","i","n","g">>
cUncategorized == <<"u","n","c","a","t","e","g","o","r","i","z","e","d">>

\* The content rules of categorize_note, in the order of the code: a label and
\* the words of which one must occur in the lower-cased content
CategoryRules == <<
  [label |-> <<"m","e","e","t","i","n","g">>,
   words |-> {<<"m","e","e","t","i","n","g">>,
             <<"a","g","e","n","d","a">>,
             <<"a","t","t","e","n","d","e","e","s">>,
             <<"a","c","t","i","o","n"," ","i","t","e","m","s">>}],
  [label |-> <<"p","r","o","j","e","c","t">>,
   words |-> {<<"p","r","o","j","e","c","t">>,
             <<"m","i","l","e","s","t","o","n","e">>,
             <<"d","e","a","d","l","i","n","e">>,
             <<"d","e","l","i","v","e","r","a","b","l","e">>}],
  [label |-> <<"e","d","u","c","a","t","i","o","n">>,
   words |-> {<<"l","e","a","r","n">>,
             <<"c","o","u","r","s","e">>,
             <<"s","t","u","d","y">>,
             <<"h","o","m","e","w","o","r","k">>,
             <<"a","s","s","i","g","n","m","e","n","t">>,
             <<"s","c","h","o","o","l">>,
             <<"e","x","a","m">>}],
  [label |-> <<"g","o","a","l","s">>,
   words |-> {<<"g","o","a","l">>,
             <<"o","b","j","e","c","t","i","v","e">>,
             <<"r","e","s","o","l","u","t","i","o","n">>,
             <<"h","a","b","i","t">>}],
  [label |-> <<"i","d","e","a","s">>,
   words |-> {<<"i","d","e","a">>,
             <<"b","r","a","i","n","s","t","o","r","m">>,
             <<"c","o","n","c","e","p","t">>,
             <<"t","h","o","u","g","h","t"," ","e","x","p","e","r","i","m","e","n","t">>}],
  [label |-> <<"r","e","a","d","i","n","g">>,
   words |-> {<<"b","o","o","k">>,
             <<"r","e","a","d","i","n","g">>,
             <<"a","u","t","h","o","r">>,
             <<"c","h","a","p","t","e","r">>}],
  [label |-> <<"t","e","c","h","n","i","c","a","l">>,
   words |-> {<<"c","o","d","e">>,
             <<"p","r","o","g","r","a","m","m","i","n","g">>,
             <<"f","u","n","c","t","i","o","n">>,
             <<"a","p","i">>,
             <<"s","o","f","t","w","a","r","e">>,
             <<"d","e","v">>}],
  [label |-> <<"r","e","f","l","e","c","t","i","o","n">>,
   words |-> {<<"r","e","f","l","e","c","t">>,
             <<"f","e","e","l","i","n","g">>,
             <<"g","r","a","t","e","f","u","l">>,
             <<"m","o","o","d">>,
             <<"e","m","o","t","i","o","n">>}],
  [label |-> <<"p","e","o","p","l","e">>,
   words |-> {<<"p","e","r","s","o","n">>,
             <<"f","r","i","e","n","d">>,
             <<"f","a","m","i","l","y">>,
             <<"c","o","n","t","a","c","t">>}],
  [label |-> <<"w","o","r","k">>,
   words |-> {<<"w","o","r","k">>,
             <<"j","o","b">>,
             <<"c","a","r","e","e","r">>,
             <<"c","o","m","p","a","n","y">>,
             <<"b","u","s","i","n","e","s","s">>}],
  [label |-> <<"h","e","a","l","t","h">>,
   words |-> {<<"h","e","a","l","t","h">>,
             <<"e","x","e","r","c","i","s","e">>,
             <<"f","i","t","n","e","s","s">>,
             <<"d","i","e","t">>,
             <<"s","l","e","e","p">>}],
  [label |-> <<"p","h","i","l","o","s","o","p","h","y">>,
   words |-> {<<"p","h","i","l","o","s","o","p","h","y">>,
             <<"m","e","a","n","i","n","g">>,
             <<"e","x","i","s","t","e","n","t","i","a","l">>,
             <<"v","a","l","u","e","s">>,
             <<"e","t","h","i","c","s">>}],
  [label |-> <<"c","r","e","a","t","i","v","e">>,
   words |-> {<<"c","r","e","a","t","i","v","e">>,
             <<"w","r","i","t","i","n","g">>,
             <<"s","t","o","r","y">>,
             <<"p","o","e","m">>,
             <<"a","r","t">>,
             <<"m","u","s","i","c">>}] >>

\* The summary stops growing past this length and is cut to the other
SummaryBreak == 200
SummaryMax == 300

\* A sequence of texts in ascending order, given their set
RECURSIVE Ascending(_)
Ascending(S) ==
  IF S = {} THEN <<>>
  ELSE LET m == CHOOSE x \in S : \A y \in S \ {x} : StrLess(x, y)
       IN <<m>> \o Ascending(S \ {m})

\* list(set(xs)): the elements once each, in the order the str hashes of the
\* running process give; the hash seed is drawn anew for every process, and
\* the model has two of the orders
HashSeeds == {0, 1}
ListOfSet(seed, xs) ==
  IF seed = 0 THEN Ascending(Range(xs)) ELSE Reverse(Ascending(Range(xs)))

\* The labels of the content rules that match, in rule order
RECURSIVE ContentLabels(_, _)
ContentLabels(content_lower, i) ==
  IF i > Len(CategoryRules) THEN <<>>
  ELSE (IF \E w \in CategoryRules[i].words : Contains(content_lower, w)
        THEN <<CategoryRules[i].label>> ELSE <<>>)
       \o ContentLabels(content_lower, i + 1)

\* categorize_note(path, content, frontmatter) under a hash seed
categorize_note(seed, path_str_raw, stem, content, frontmatter) ==
  LET path_str == Lower(path_str_raw)
      name == Lower(stem)
      byPath ==
        (IF Contains(path_str, <<"4","1"," ","d","a","i","l","y">>) \/ Contains(path_str, <<"p","e","r","i","o","d","i","c">>)
         THEN <<cJournal>> ELSE <<>>)
        \o (IF Contains(path_str, cTemplate) THEN <<cTemplate>> ELSE <<>>)
        \o (IF Contains(path_str, cMeta) THEN <<cMeta>> ELSE <<>>)
        \o (IF Contains(path_str, <<"e","x","c","a","l","i","d","r","a","w">>) THEN <<cDrawing>> ELSE <<>>)
      byName == IF DateAt(name, 1) THEN <<cJournal>> ELSE <<>>
      fmTags ==
        IF <<"t","a","g","s">> \in DOMAIN frontmatter
        THEN Map(SplitOn(frontmatter[<<"t","a","g","s">>], ","), Strip)
        ELSE <<>>
      categories == byPath \o byName \o ContentLabels(Lower(content), 1) \o fmTags
  IN IF categories # <<>> THEN ListOfSet(seed, categories) ELSE <<cUncategorized>>

\* The summary loop of index_note (lines 117-128): the lines kept so far
\* after the lines from i on
RECURSIVE SummaryLines(_, _, _, _)
SummaryLines(lines, i, in_frontmatter, acc) ==
  IF i > Len(lines) THEN acc
  ELSE LET line == lines[i]
       IN IF Strip(line) = <<"-", "-", "-">>
          THEN SummaryLines(lines, i + 1, ~in_frontmatter, acc)
          ELSE IF in_frontmatter THEN SummaryLines(lines, i + 1, in_frontmatter, acc)
          ELSE IF Strip(line) # <<>> /\ ~StartsWith(line, <<"#">>)
                  /\ ~StartsWith(line, <<Backtick, Backtick, Backtick>>)
          THEN LET more == Append(acc, Strip(line))
               IN IF Len(Join(more, <<" ">>)) > SummaryBreak THEN more
                  ELSE SummaryLines(lines, i + 1, in_frontmatter, more)
          ELSE SummaryLines(lines, i + 1, in_frontmatter, acc)

\* The date of a note (lines 131-141): from the name, else from the date
\* field when there is one, else from the created field
NoteDate(stem, frontmatter) ==
  IF DateSearch(stem) # None THEN DateSearch(stem)
  ELSE IF <<"d","a","t","e">> \in DOMAIN frontmatter THEN DateSearch(frontmatter[<<"d","a","t","e">>])
  ELSE IF <<"c","r","e","a","t","e","d">> \in DOMAIN frontmatter THEN DateSearch(frontmatter[<<"c","r","e","a","t","e","d">>])
  ELSE None

\* The entry index_note makes of a file with the given content
IndexEntry(seed, f, content) ==
  LET frontmatter == extract_frontmatter(content)
      links == extract_links(content)
  IN [name |-> f.stem,
      path |-> RelPath(f),
      vault |-> f.vault,
      date |-> NoteDate(f.stem, frontmatter),
      categories |-> categorize_note(seed, PathStr(CfgRoot, f), f.stem, content, frontmatter),
      tags |-> extract_tags(content),
      links |-> links,
      link_count |-> Len(links),
      headings |-> extract_headings(content),
      frontmatter |-> frontmatter,
      summary |-> Take(Join(SummaryLines(SplitOn(content, NL), 1, FALSE, <<>>), <<" ">>),
                       SummaryMax),
      word_count |-> Len(Words(content)),
      char_count |-> Len(content)]


\* The entries of the notes of the model, computed once
KnownTexts == {tX, tToB, tSelf, tTwoWords, tSubstrings, tTwoLabels, tGoal}
EntryTable ==
  [seed \in HashSeeds |->
    [f \in Range(AllFiles) |-> [c \in KnownTexts |-> IndexEntry(seed, f, c)]]]

\* index_note(path, vault_name) for a file that can be read
index_note(seed, f) ==
  IF disk[f] \in KnownTexts THEN EntryTable[seed][f][disk[f]]
  ELSE IndexEntry(seed, f, disk[f])

\* list.sort(key=...) as Python sorts: stably; before[i][j] tells whether the
\* key of q[i] is less than the key of q[j]
StableSort(q, before) ==
  LET pos == [i \in 1..Len(q) |->
                1 + Cardinality({j \in 1..Len(q) :
                      before[j][i] \/ (~before[i][j] /\ j < i)})]
  IN [p \in 1..Len(q) |-> q[CHOOSE i \in 1..Len(q) : pos[i] = p]]

\* The sequences of a sequence, joined
RECURSIVE Concat(_)
Concat(qs) == IF qs = <<>> THEN <<>> ELSE Head(qs) \o Concat(Tail(qs))

RECURSIVE SumOf(_)
SumOf(q) == IF q = <<>> THEN 0 ELSE Head(q) + SumOf(Tail(q))

\* The dict that counts the occurrences of each element of q
Counts(q) == [x \in Range(q) |-> Cardinality({i \in 1..Len(q) : q[i] = x})]

\* The stats build_index computes (lines 185-206)
IndexStats(notes) ==
  LET dates == {notes[i].date : i \in 1..Len(notes)} \ {None}
  IN [total_notes |-> Len(notes),
      categories |-> Counts(Concat(Map(notes, LAMBDA n : n.categories))),
      tags |-> Counts(Concat(Map(notes, LAMBDA n : n.tags))),
      date_range |->
        [earliest |-> IF dates = {} THEN None
                      ELSE CHOOSE d \in dates : \A e \in dates \ {d} : StrLess(d, e),
         latest |-> IF dates = {} THEN None
                    ELSE CHOOSE d \in dates : \A e \in dates \ {d} : StrLess(e, d)],
      total_words |-> SumOf(Map(notes, LAMBDA n : n.word_count))]

\* A build that ends its walk at the first file it cannot read
IndexedFilesUntilUnreadable(vault) ==
  LET walk == WalkAll(CfgRoot, VaultsOf(vault))
      bad == {i \in 1..Len(walk) : disk[walk[i]] = Undecodable}
  IN IF bad = {} THEN walk
     ELSE SubSeq(walk, 1, (CHOOSE i \in bad : \A j \in bad : i <= j) - 1)

\* The files build_index makes entries of: those of the vaults of the scope
\* that can be read, in walk order
IndexedFiles(vault) ==
  SelectSeq(WalkAll(CfgRoot, VaultsOf(vault)), LAMBDA f : disk[f] # Undecodable)

\* A build that makes entries of the files of both vaults whatever the scope
BuiltIndexOfAll(vault, seed, now) ==
  CHOOSE ix \in {[notes |-> notes, built_at |-> now, stats |-> IndexStats(notes)] :
                   notes \in {Map(IndexedFiles(""), LAMBDA f : index_note(seed, f))}} : TRUE

\* The index build_index(vault) writes, in a process with the given hash
\* seed, at the given time
BuiltIndex(vault, seed, now) ==
  CHOOSE ix \in {[notes |-> notes, built_at |-> now, stats |-> IndexStats(notes)] :
                   notes \in {Map(IndexedFiles(vault), LAMBDA f : index_note(seed, f))}} : TRUE

\* The weights of search_index
NameScore == 10
ExactNameScore == 20
SummaryScore == 5
TagScore == 3
HeadingScore == 4

\* A search that gives nothing for the name being the query itself
QueryScoreNoExact(note, query_lower) ==
  (IF Contains(Lower(note.name), query_lower) THEN NameScore ELSE 0)
  + (IF Contains(Lower(note.summary), query_lower) THEN SummaryScore ELSE 0)
  + (IF \E t \in Range(note.tags) : Contains(Lower(t), query_lower)
     THEN TagScore ELSE 0)
  + (IF \E h \in Range(note.headings) : Contains(Lower(h.text), query_lower)
     THEN HeadingScore ELSE 0)

\* The score search_index gives a note for a query that is not empty
QueryScore(note, query_lower) ==
  LET name_lower == Lower(note.name)
  IN (IF Contains(name_lower, query_lower)
      THEN NameScore + (IF name_lower = query_lower THEN ExactNameScore ELSE 0)
      ELSE 0)
     + (IF Contains(Lower(note.summary), query_lower) THEN SummaryScore ELSE 0)
     + (IF \E t \in Range(note.tags) : Contains(Lower(t), query_lower)
        THEN TagScore ELSE 0)
     + (IF \E h \in Range(note.headings) : Contains(Lower(h.text), query_lower)
        THEN HeadingScore ELSE 0)

\* The date test of a filter that drops the notes without a date too
DateFilterDropsUndated(note, date_from, date_to) ==
  /\ ~(date_from # <<>> /\ (note.date = None \/ StrLess(note.date, date_from)))
  /\ ~(date_to # <<>> /\ (note.date = None \/ StrLess(date_to, note.date)))

\* The date test of search_index (lines 230-233): None and '' are no bound,
\* and a note without a date passes
DateFilter(note, date_from, date_to) ==
  /\ ~(date_from # <<>> /\ note.date # None /\ StrLess(note.date, date_from))
  /\ ~(date_to # <<>> /\ note.date # None /\ StrLess(date_to, note.date))

\* The filters of search_index (lines 226-233); <<>> and "" stand for None
PassesFilters(note, category, date_from, date_to, vault) ==
  /\ ~(vault # "" /\ note.vault # vault)
  /\ ~(category # <<>> /\ category \notin Range(note.categories))
  /\ DateFilter(note, date_from, date_to)

\* The order of an empty query, smallest first
FewerWords(a, b) == a._score < b._score

\* results.sort(key=score, reverse=True)
HigherScore(a, b) == a._score > b._score

\* {**note, "_score": score}
WithScore(note, score) ==
  [k \in DOMAIN note \cup {"_score"} |-> IF k = "_score" THEN score ELSE note[k]]

\* A search that keeps the notes that score 0
SearchOverKeepingAll(ix, query, category, date_from, date_to, vault, limit) ==
  LET query_lower == Lower(query)
      score(note) == IF query_lower # <<>> THEN QueryScore(note, query_lower)
                     ELSE note.word_count
      kept == SelectSeq(ix.notes,
                LAMBDA n : PassesFilters(n, category, date_from, date_to, vault))
      byScore(rs) == [i \in 1..Len(rs) |-> [j \in 1..Len(rs) |-> HigherScore(rs[i], rs[j])]]
  IN CHOOSE out \in {Take(StableSort(results, byScore(results)), limit) :
                      results \in {Map(kept, LAMBDA n : WithScore(n, score(n)))}} : TRUE

\* search_index(query, category, date_from, date_to, vault, limit) over the
\* index as read from the file, for limit >= 0
SearchOver(ix, query, category, date_from, date_to, vault, limit) ==
  LET query_lower == Lower(query)
      score(note) == IF query_lower # <<>> THEN QueryScore(note, query_lower)
                     ELSE note.word_count
      kept == SelectSeq(ix.notes,
                LAMBDA n : /\ PassesFilters(n, category, date_from, date_to, vault)
                           /\ (query_lower # <<>> => score(n) # 0))
      byScore(rs) == [i \in 1..Len(rs) |-> [j \in 1..Len(rs) |-> HigherScore(rs[i], rs[j])]]
  IN CHOOSE out \in {Take(StableSort(results, byScore(results)), limit) :
                      results \in {Map(kept, LAMBDA n : WithScore(n, score(n)))}} : TRUE

\* A sort key that puts the notes without a date first
LastDate == <<"9","9","9","9","-","9","9","-","9","9">>
BatchKeyLessUndatedFirst(a, b) ==
  LET da == IF a.date = None THEN LastDate ELSE a.date
      db == IF b.date = None THEN LastDate ELSE b.date
  IN StrLess(da, db) \/ (da = db /\ StrLess(a.name, b.name))

\* The sort key of get_batch, (date or "0000-00-00", name), compared as
\* Python compares tuples
ZeroDate == <<"0","0","0","0","-","0","0","-","0","0">>
BatchKeyLess(a, b) ==
  LET da == IF a.date = None THEN ZeroDate ELSE a.date
      db == IF b.date = None THEN ZeroDate ELSE b.date
  IN StrLess(da, db) \/ (da = db /\ StrLess(a.name, b.name))

\* get_batch(offset, limit, category, vault) over the index as read from the
\* file, for offset >= 0 and limit >= 0
BatchOver(ix, offset, limit, category, vault) ==
  LET kept == SelectSeq(ix.notes,
                LAMBDA n : /\ ~(category # <<>> /\ category \notin Range(n.categories))
                           /\ ~(vault # "" /\ n.vault # vault))
      later(rs) == [i \in 1..Len(rs) |-> [j \in 1..Len(rs) |-> BatchKeyLess(rs[j], rs[i])]]
      stop(rs) == IF offset + limit < Len(rs) THEN offset + limit ELSE Len(rs)
  IN CHOOSE out \in {[batch |-> SubSeq(notes, offset + 1, stop(notes)),
                       offset |-> offset, limit |-> limit, total |-> Len(notes),
                       has_more |-> offset + limit < Len(notes)] :
                      notes \in {StableSort(kept, later(kept))}} : TRUE

\* search_notes(query, vault): the live scan of knowledge.py
SearchCap == 20
SnippetPad == 50
Snippet(content, query) ==
  LET idx == Find(Lower(content), Lower(query), 1) - 1
      start == IF idx - SnippetPad > 0 THEN idx - SnippetPad ELSE 0
      stop == IF idx + Len(query) + SnippetPad < Len(content)
              THEN idx + Len(query) + SnippetPad ELSE Len(content)
      body == [i \in 1..(stop - start) |->
                 IF content[start + i] = NL THEN " " ELSE content[start + i]]
  IN (IF start > 0 THEN <<".", ".", ".">> ELSE <<>>) \o body
       \o (IF stop < Len(content) THEN <<".", ".", ".">> ELSE <<>>)

TitleFirstThenName(a, b) ==
  \/ a.title_match /\ ~b.title_match
  \/ a.title_match = b.title_match /\ StrLess(Lower(a.name), Lower(b.name))

search_notes(query, vault) ==
  LET query_lower == Lower(query)
      hit(f) == /\ disk[f] # Undecodable
                /\ \/ Contains(Lower(f.stem), query_lower)
                   \/ Contains(Lower(disk[f]), query_lower)
      found == SelectSeq(WalkAll(KbRoot, VaultsOf(vault)), hit)
      result(f) ==
        [name |-> f.stem, path |-> RelPath(f), vault |-> f.vault,
         title_match |-> Contains(Lower(f.stem), query_lower),
         snippet |-> IF Contains(Lower(disk[f]), query_lower)
                     THEN Snippet(disk[f], query) ELSE <<>>]
      byKey(rs) ==
        [i \in 1..Len(rs) |-> [j \in 1..Len(rs) |-> TitleFirstThenName(rs[i], rs[j])]]
  IN CHOOSE out \in {Take(StableSort(results, byKey(results)), SearchCap) :
                      results \in {Map(found, result)}} : TRUE

\* The merge of vault_retriever.search (lines 52-75): the live results, then
\* the indexed ones not yet seen, by (vault, name)
RECURSIVE Merged(_, _, _)
Merged(seen, basic, indexed) ==
  IF basic # <<>>
  THEN LET r == Head(basic)
           key == <<r.vault, r.name>>
       IN IF key \in seen THEN Merged(seen, Tail(basic), indexed)
          ELSE <<[name |-> r.name, path |-> r.path, vault |-> r.vault,
                  title_match |-> r.title_match, snippet |-> r.snippet,
                  match_type |-> IF r.title_match THEN "title" ELSE "content"]>>
               \o Merged(seen \cup {key}, Tail(basic), indexed)
  ELSE IF indexed # <<>>
  THEN LET r == Head(indexed)
           key == <<r.vault, r.name>>
       IN IF key \in seen THEN Merged(seen, basic, Tail(indexed))
          ELSE <<[name |-> r.name, path |-> r.path, vault |-> r.vault,
                  summary |-> r.summary, categories |-> r.categories,
                  match_type |-> "indexed"]>>
               \o Merged(seen \cup {key}, basic, Tail(indexed))
  ELSE <<>>

\* get_context (vault_retriever.py lines 84-142): the bounds it works with
ContextLimit == 10
ExcerptMax == 500
LinkCap == 10
BacklinkCap == 5

\* The loop over backlinks[:5] (lines 131-138): the entries added for the
\* backlinks not yet seen, and the names seen after it
RECURSIVE RelatedFrom(_, _, _)
RelatedFrom(backlinks, seen, via) ==
  IF backlinks = <<>> THEN [related |-> <<>>, seen |-> seen]
  ELSE LET bl == Head(backlinks)
           fresh == bl.name \notin seen
           rest == RelatedFrom(Tail(backlinks), seen \cup {bl.name}, via)
       IN [related |-> (IF fresh
                        THEN <<[name |-> bl.name, vault |-> bl.vault, related_via |-> via]>>
                        ELSE <<>>) \o rest.related,
           seen |-> rest.seen]

\* The loop over results['results'] (lines 102-138); a read that raises ends
\* the command. NoteContext is the body of the loop for a result not yet seen,
\* full_note being what read_note returned for it.
RECURSIVE ContextFrom(_, _)
RECURSIVE NoteContext(_, _, _, _)
NoteContext(note_name, full_note, rest, seen) ==
  IF full_note.kind = "error" THEN ContextFrom(rest, seen \cup {note_name})
  ELSE IF full_note.kind = "raise"
  THEN [raised |-> TRUE, direct |-> <<>>, related |-> <<>>]
  ELSE LET note_summary ==
             [name |-> full_note.name, vault |-> full_note.vault,
              link_count |-> full_note.link_count,
              excerpt |-> Take(full_note.content, ExcerptMax),
              links |-> Take(full_note.links, LinkCap)]
       IN CHOOSE out \in UNION {
            {[raised |-> after.raised,
              direct |-> <<note_summary>> \o after.direct,
              related |-> more.related \o after.related] :
               after \in {ContextFrom(rest, more.seen)}} :
            more \in {RelatedFrom(Take(get_backlinks(note_name, ""), BacklinkCap),
                                  seen \cup {note_name}, note_name)}} : TRUE

ContextFrom(results, seen) ==
  IF results = <<>> THEN [raised |-> FALSE, direct |-> <<>>, related |-> <<>>]
  ELSE IF Head(results).name \in seen THEN ContextFrom(Tail(results), seen)
  ELSE CHOOSE out \in
         {NoteContext(Head(results).name, full_note, Tail(results), seen) :
            full_note \in {read_note(Head(results).name, Head(results).vault)}} : TRUE

\* The result get_context makes of what the loop gathered (lines 92-142)
ContextOf(topic, context) ==
  IF context.raised THEN [kind |-> "raise"]
  ELSE [kind |-> "ok", topic |-> topic,
        direct_matches |-> context.direct,
        related_notes |-> context.related,
        from_samuel_vault |-> SelectSeq(context.direct, LAMBDA n : n.vault = "samuel"),
        from_iris_vault |-> SelectSeq(context.direct, LAMBDA n : n.vault # "samuel"),
        total_notes_found |-> Len(context.direct) + Len(context.related)]

\* get_context(topic), the index being ix once ensure_index() has run
get_context(topic, ix) ==
  CHOOSE out \in UNION {
    {ContextOf(topic, context) : context \in {ContextFrom(results, {})}} :
    results \in {Take(Merged({}, search_notes(topic, ""),
                             SearchOver(ix, topic, <<>>, <<>>, <<>>, "", ContextLimit)),
                      ContextLimit)}} : TRUE

\* What the vault's owner may put at a path from outside the program
EnvChoices(f) ==
  IF f = fA THEN {tToB, tSelf}
  ELSE IF f = fC THEN {tToB, Undecodable}
  ELSE IF f \in {fIndex, fB} THEN {tX}
  ELSE {}

\* The example vault: Index, A referring to B, and B
ExampleDisk ==
  [f \in Range(AllFiles) |->
     IF f \in {fIndex, fB} THEN tX ELSE IF f = fA THEN tToB ELSE Absent]

NoCommand == [op |-> "none"]

\* An index file that is there and does not hold JSON
Unparsable == [unparsable |-> TRUE]

\* How many NoteWriter commands a run of the model takes
MaxWrites == 1

\* --------------------------------------------------------------- commands

\* The vault's owner creates or edits a file
EnvPut(f, c) ==
  /\ disk[f] # c
  /\ disk' = [disk EXCEPT ![f] = c]
  /\ last' = NoCommand
  /\ UNCHANGED <<scanOrder, aliased, index, clock, nwrites, writer>>

\* The vault's owner deletes a file
EnvRemove(f) ==
  /\ disk[f] # Absent
  /\ disk' = [disk EXCEPT ![f] = Absent]
  /\ last' = NoCommand
  /\ UNCHANGED <<scanOrder, aliased, index, clock, nwrites, writer>>

\* knowledge.py read
ReadNote(name, vault) ==
  /\ last' = [op |-> "read", name |-> name, vault |-> vault,
              out |-> read_note(name, vault)]
  /\ UNCHANGED <<disk, scanOrder, aliased, index, clock, nwrites, writer>>

\* knowledge.py backlinks
GetBacklinks(name, vault) ==
  /\ last' = [op |-> "backlinks", name |-> name, vault |-> vault,
              out |-> get_backlinks(name, vault)]
  /\ UNCHANGED <<disk, scanOrder, aliased, index, clock, nwrites, writer>>

\* knowledge.py graph
GetGraph(name) ==
  /\ last' = [op |-> "graph", name |-> name, out |-> get_graph(name)]
  /\ UNCHANGED <<disk, scanOrder, aliased, index, clock, nwrites, writer>>

\* knowledge.py orphans
FindOrphans ==
  /\ last' = [op |-> "orphans", out |-> find_orphans]
  /\ UNCHANGED <<disk, scanOrder, aliased, index, clock, nwrites, writer>>

\* A write that removes the index file, so that the next query builds anew
WriteNoteInvalidating(name, content) ==
  /\ nwrites' = nwrites + 1
  /\ disk' = [disk EXCEPT ![WritePath(name)] = content]
  /\ index' = None
  /\ last' = [op |-> "write", name |-> name, content |-> content,
              notes |-> Range(rglob(KbRoot, "iris")),
              out |-> [kind |-> "ok",
                       action |-> IF disk[WritePath(name)] # Absent
                                  THEN "updated" ELSE "created",
                       name |-> name, path |-> name \o MdExt, vault |-> "iris"]]
  /\ UNCHANGED <<scanOrder, aliased, clock, writer>>

\* knowledge.py write
WriteNote(name, content) ==
  /\ nwrites' = nwrites + 1
  /\ disk' = [disk EXCEPT ![WritePath(name)] = content]
  /\ last' = [op |-> "write", name |-> name, content |-> content,
              notes |-> Range(rglob(KbRoot, "iris")),
              out |-> [kind |-> "ok",
                       action |-> IF disk[WritePath(name)] # Absent
                                  THEN "updated" ELSE "created",
                       name |-> name, path |-> name \o MdExt, vault |-> "iris"]]
  /\ UNCHANGED <<scanOrder, aliased, index, clock, writer>>

\* What the next command remembers of an append that wrote
Remembered ==
  IF last.op \in {"append", "link"} /\ last.out.kind = "ok"
  THEN [op |-> last.op, path |-> last.path, section |-> last.section,
        content |-> last.content, before |-> last.before]
  ELSE NoCommand

\* An append that, finding no note, leaves one holding the content and still
\* answers with the error
AppendCommandCreating(op, name, content, section) ==
  LET path == find_note(name, "iris")
  IN /\ nwrites' = nwrites + 1
     /\ IF path = NoPath
        THEN /\ last' = [op |-> op, name |-> name, content |-> content,
                         section |-> section, out |-> [kind |-> "error"]]
             /\ disk' = [disk EXCEPT ![WritePath(name)] = content]
        ELSE IF disk[path] = Undecodable
        THEN /\ last' = [op |-> op, name |-> name, content |-> content,
                         section |-> section, out |-> [kind |-> "raise"]]
             /\ UNCHANGED disk
        ELSE /\ disk' = [disk EXCEPT ![path] = AppendText(disk[path], content, section)]
             /\ last' = [op |-> op, name |-> name, content |-> content,
                         section |-> section, path |-> path, before |-> disk[path],
                         prior |-> Remembered,
                         out |-> [kind |-> "ok", action |-> "appended",
                                  name |-> path.stem, section |-> section]]
     /\ UNCHANGED <<scanOrder, aliased, index, clock, writer>>

\* append_to_note(name, content, section)
AppendCommand(op, name, content, section) ==
  LET path == find_note(name, "iris")
  IN /\ nwrites' = nwrites + 1
     /\ IF path = NoPath
        THEN /\ last' = [op |-> op, name |-> name, content |-> content,
                         section |-> section, out |-> [kind |-> "error"]]
             /\ UNCHANGED disk
        ELSE IF disk[path] = Undecodable
        THEN /\ last' = [op |-> op, name |-> name, content |-> content,
                         section |-> section, out |-> [kind |-> "raise"]]
             /\ UNCHANGED disk
        ELSE /\ disk' = [disk EXCEPT ![path] = AppendText(disk[path], content, section)]
             /\ last' = [op |-> op, name |-> name, content |-> content,
                         section |-> section, path |-> path, before |-> disk[path],
                         prior |-> Remembered,
                         out |-> [kind |-> "ok", action |-> "appended",
                                  name |-> path.stem, section |-> section]]
     /\ UNCHANGED <<scanOrder, aliased, index, clock, writer>>

\* knowledge.py append
AppendToNote(name, content, section) == AppendCommand("append", name, content, section)

\* knowledge.py link
AddLink(from_note, to_note, section) ==
  AppendCommand("link", from_note, LinkText(to_note), section)

\* What the next build remembers of a build
RememberedBuild ==
  IF last.op = "build"
  THEN [op |-> "build", vault |-> last.vault, index |-> index]
  ELSE NoCommand

\* vault_indexer.py build [--vault v], in a process of its own
BuildIndex(vault, seed) ==
  /\ index' = BuiltIndex(vault, seed, clock + 1)
  /\ clock' = clock + 1
  /\ last' = [op |-> "build", vault |-> vault, prior |-> RememberedBuild,
              out |-> [status |-> "built", total_notes |-> Len(index'.notes)]]
  /\ UNCHANGED <<disk, scanOrder, aliased, nwrites, writer>>

\* build_index in a process that runs beside others: INDEX_PATH.write_text
\* (line 210) opens the file, which empties it, and then writes the text; what
\* the file holds in between is the beginning of the text, which is not JSON
BuildOpens(vault, seed) ==
  /\ writer = None
  /\ writer' = [vault |-> vault, before |-> index,
                index |-> BuiltIndex(vault, seed, clock + 1)]
  /\ index' = Unparsable
  /\ clock' = clock + 1
  /\ last' = NoCommand
  /\ UNCHANGED <<disk, scanOrder, aliased, nwrites>>

BuildCloses ==
  /\ writer # None
  /\ index' = writer.index
  /\ writer' = None
  /\ last' = [op |-> "build", vault |-> writer.vault, prior |-> NoCommand,
              out |-> [status |-> "built", total_notes |-> Len(writer.index.notes)]]
  /\ UNCHANGED <<disk, scanOrder, aliased, clock, nwrites>>

\* What a command finds where the index file should be
IndexFound ==
  IF index = None THEN "absent"
  ELSE IF index = Unparsable THEN "unparsable" ELSE "present"

\* The index a command finds, which build_index() makes first when the file
\* is not there (lines 217-218, and ensure_index of vault_retriever.py)
EnsuredIndex(seed) == IF index = None THEN BuiltIndex("", seed, clock + 1) ELSE index

\* vault_indexer.py search: search_index(query, category, date_from, date_to,
\* vault, limit)
SearchIndex(req, seed) ==
  IF index = Unparsable
  THEN /\ last' = [op |-> "search_index", req |-> req, found |-> IndexFound,
                   raised |-> TRUE, out |-> <<>>]
       /\ UNCHANGED <<disk, scanOrder, aliased, index, clock, nwrites, writer>>
  ELSE \E ix \in {EnsuredIndex(seed)} :
         /\ index' = ix
         /\ clock' = IF index = None THEN clock + 1 ELSE clock
         /\ last' = [op |-> "search_index", req |-> req, found |-> IndexFound,
                     raised |-> FALSE,
                     out |-> SearchOver(ix, req.query, req.category, req.date_from,
                                        req.date_to, req.vault, req.limit)]
         /\ UNCHANGED <<disk, scanOrder, aliased, nwrites, writer>>

\* vault_indexer.py batch: get_batch(offset, limit, category, vault);
\* json.loads raises on a file that is not JSON
GetBatch(b, seed) ==
  IF index = Unparsable
  THEN /\ last' = [op |-> "batch", req |-> b, found |-> IndexFound,
                   raised |-> TRUE, out |-> <<>>]
       /\ UNCHANGED <<disk, scanOrder, aliased, index, clock, nwrites, writer>>
  ELSE \E ix \in {EnsuredIndex(seed)} :
         /\ index' = ix
         /\ clock' = IF index = None THEN clock + 1 ELSE clock
         /\ last' = [op |-> "batch", req |-> b, found |-> IndexFound,
                     raised |-> FALSE,
                     out |-> BatchOver(ix, b.offset, b.limit, b.category, b.vault)]
         /\ UNCHANGED <<disk, scanOrder, aliased, nwrites, writer>>

\* vault_indexer.py stats: get_stats() builds nothing
GetStats ==
  /\ last' = [op |-> "stats", found |-> IndexFound, raised |-> index = Unparsable,
              out |-> IF index = Unparsable THEN <<>>
                      ELSE IF index = None THEN [error |-> "Index not built"]
                      ELSE index.stats]
  /\ UNCHANGED <<disk, scanOrder, aliased, index, clock, nwrites, writer>>

\* vault_indexer.py categories: get_categories()
GetCategories(seed) ==
  IF index = Unparsable
  THEN /\ last' = [op |-> "categories", found |-> IndexFound,
                   raised |-> TRUE, out |-> <<>>]
       /\ UNCHANGED <<disk, scanOrder, aliased, index, clock, nwrites, writer>>
  ELSE \E ix \in {EnsuredIndex(seed)} :
         /\ index' = ix
         /\ clock' = IF index = None THEN clock + 1 ELSE clock
         /\ last' = [op |-> "categories", found |-> IndexFound,
                     raised |-> FALSE, out |-> ix.stats.categories]
         /\ UNCHANGED <<disk, scanOrder, aliased, nwrites, writer>>

\* vault_retriever.py context: get_context(topic); search() calls
\* ensure_index() and search_index, whose json.loads raises on a file that is
\* not JSON
GetContext(topic, seed) ==
  IF index = Unparsable
  THEN /\ last' = [op |-> "context", topic |-> topic, out |-> [kind |-> "raise"]]
       /\ UNCHANGED <<disk, scanOrder, aliased, index, clock, nwrites, writer>>
  ELSE \E ix \in {EnsuredIndex(seed)} :
         /\ index' = ix
         /\ clock' = IF index = None THEN clock + 1 ELSE clock
         /\ last' = [op |-> "context", topic |-> topic, out |-> get_context(topic, ix)]
         /\ UNCHANGED <<disk, scanOrder, aliased, nwrites, writer>>

\* The index file is deleted, or overwritten with something that is not JSON
EnvRemoveIndex ==
  /\ index # None
  /\ index' = None
  /\ last' = NoCommand
  /\ UNCHANGED <<disk, scanOrder, aliased, clock, nwrites, writer>>

EnvCorruptIndex ==
  /\ index # Unparsable
  /\ index' = Unparsable
  /\ last' = NoCommand
  /\ UNCHANGED <<disk, scanOrder, aliased, clock, nwrites, writer>>

\* vault_retriever.py search: search(query, vault, limit)
Search(query, vault, limit, seed) ==
  \E basic_results \in {search_notes(query, vault)} :
  \E ix \in {EnsuredIndex(seed)} :
  \E index_results \in {SearchOver(ix, query, <<>>, <<>>, <<>>, vault, limit)} :
  \E combined \in {Merged({}, basic_results, index_results)} :
    /\ index' = ix
    /\ clock' = IF index = None THEN clock + 1 ELSE clock
    /\ last' = [op |-> "search", query |-> query, vault |-> vault, limit |-> limit,
                out |-> [query |-> query, results |-> Take(combined, limit),
                         count |-> Len(Take(combined, limit))]]
    /\ UNCHANGED <<disk, scanOrder, aliased, nwrites, writer>>

\* ------------------------------------------- the knowledge-base commands

\* The names the commands of the model are called with
ReadNames == {nB, nC}
LinkNames == {nA, nB, nb}
GraphNames == {nB, nb, nC, nZ}

Init ==
  /\ disk = ExampleDisk
  /\ scanOrder \in {AllFiles, Reverse(AllFiles)}
  /\ aliased \in BOOLEAN
  /\ index = None
  /\ clock = 0
  /\ last = NoCommand
  /\ nwrites = 0
  /\ writer = None

Next ==
  \/ \E f \in Range(AllFiles) : \E c \in EnvChoices(f) : EnvPut(f, c)
  \/ \E f \in Range(AllFiles) : EnvRemove(f)
  \/ \E n \in ReadNames : \E v \in {"", "iris"} : ReadNote(n, v)
  \/ \E n \in LinkNames : \E v \in {"", "iris"} : GetBacklinks(n, v)
  \/ \E n \in GraphNames : GetGraph(n)
  \/ FindOrphans
  \/ nwrites < MaxWrites /\ \E n \in {nA, nZ} : WriteNote(n, tToB)
  \/ nwrites < MaxWrites /\ \E n \in {nA, nC} : AppendToNote(n, tX, <<>>)
  \/ nwrites < MaxWrites /\ \E n \in {nB, nZ} : AddLink(n, nA, <<>>)

Spec == Init /\ [][Next]_vars

\* ------------------------------------------------- the index and its search

\* The vault root the indexer reads
IndexRoot == Res(CfgRoot)
Indexed(f) == File(IndexRoot, f.vault, f.dir, f.stem)

IndexedDisk ==
  [f \in Range(AllFiles) |->
     IF f = Indexed(fB) THEN tX
     ELSE IF f = Indexed(fAB) THEN tSubstrings
     ELSE IF f = Indexed(fSubB) THEN tTwoWords
     ELSE IF f = Indexed(fDated) THEN tTwoLabels
     ELSE IF f = Indexed(fC) THEN tGoal
     ELSE Absent]

\* What the vaults' owner may do to them between commands
IndexEdits(f) ==
  IF f = Indexed(fC) THEN {tGoal, Undecodable}
  ELSE IF f = Indexed(fSubB) THEN {tTwoWords}
  ELSE {}
IndexRemovals == {Indexed(fSubB)}

\* The searches asked of the index
dEarly == <<"2","0","2","3","-","1","2","-","3","1">>
dLate == <<"2","0","2","4","-","0","1","-","0","6">>
dYear == <<"2","0","2","4">>
DefaultLimit == 30
Request(query, category, date_from, date_to, vault, limit) ==
  [query |-> query, category |-> category, date_from |-> date_from,
   date_to |-> date_to, vault |-> vault, limit |-> limit]
Requests ==
  {Request(<<>>, <<>>, <<>>, <<>>, "", 2),
   Request(<<>>, <<>>, <<>>, <<>>, "", DefaultLimit),
   Request(<<>>, <<>>, <<>>, <<>>, "iris", 1),
   Request(nB, <<>>, <<>>, <<>>, "", 1),
   Request(nb, <<>>, <<>>, <<>>, "", DefaultLimit),
   Request(<<>>, <<>>, dLate, <<>>, "", DefaultLimit),
   Request(<<>>, <<>>, dLate, <<>>, "", 1),
   Request(<<>>, <<>>, <<>>, dEarly, "", DefaultLimit),
   Request(<<>>, <<>>, dYear, dLate, "", DefaultLimit),
   Request(<<"o">>, <<"g","o","a","l","s">>, dLate, <<>>, "", DefaultLimit)}

\* How many builds a run of the model takes
MaxBuilds == 2

\* The index is built again and again while the vaults change
InitBuild ==
  /\ aliased \in BOOLEAN
  /\ disk = IndexedDisk
  /\ scanOrder = AllFiles
  /\ index = None
  /\ clock = 0
  /\ last = NoCommand
  /\ nwrites = 0
  /\ writer = None

NextBuild ==
  \/ \E f \in Range(AllFiles) : \E c \in IndexEdits(f) : EnvPut(f, c)
  \/ \E f \in IndexRemovals : EnvRemove(f)
  \/ clock < MaxBuilds /\ \E v \in {"", "samuel", "iris"} :
       \E seed \in HashSeeds : BuildIndex(v, seed)

SpecBuild == InitBuild /\ [][NextBuild]_vars

\* The hash seed matters only to a process that builds the index
SeedsThatMatter == IF index = None THEN HashSeeds ELSE {0}

\* The index is searched while the vaults change; the first search builds it
InitSearch ==
  /\ aliased \in BOOLEAN
  /\ disk = IndexedDisk
  /\ scanOrder \in {AllFiles, Reverse(AllFiles)}
  /\ index = None
  /\ clock = 0
  /\ last = NoCommand
  /\ nwrites = 0
  /\ writer = None

NextSearch ==
  \/ \E f \in Range(AllFiles) : \E c \in IndexEdits(f) : EnvPut(f, c)
  \/ \E f \in IndexRemovals : EnvRemove(f)
  \/ \E req \in Requests : \E seed \in SeedsThatMatter : SearchIndex(req, seed)
  \/ \E q \in {<<>>, nB} : \E k \in {1, 2} : \E seed \in SeedsThatMatter :
       Search(q, "", k, seed)

SpecSearch == InitSearch /\ [][NextSearch]_vars

\* The batches asked of the index
DefaultBatch == 20
BatchRequest(offset, limit, category, vault) ==
  [offset |-> offset, limit |-> limit, category |-> category, vault |-> vault]
BatchRequests ==
  {BatchRequest(0, DefaultBatch, <<>>, ""),
   BatchRequest(1, 1, <<>>, ""),
   BatchRequest(0, 1, <<"g","o","a","l","s">>, "samuel")}

\* The index file comes and goes while the index is queried and notes are
\* written
InitIndexFile ==
  /\ aliased \in BOOLEAN
  /\ disk = IndexedDisk
  /\ scanOrder = AllFiles
  /\ index = None
  /\ clock = 0
  /\ last = NoCommand
  /\ nwrites = 0
  /\ writer = None

NextIndexFile ==
  \/ \E c \in IndexEdits(Indexed(fC)) : EnvPut(Indexed(fC), c)
  \/ clock < MaxBuilds /\ EnvRemoveIndex
  \/ clock < MaxBuilds /\ EnvCorruptIndex
  \/ clock < MaxBuilds /\ \E seed \in HashSeeds : BuildIndex("", seed)
  \/ (index = None => clock < MaxBuilds) /\
       \E req \in {Request(<<>>, <<>>, <<>>, <<>>, "", 2),
                    Request(nB, <<>>, <<>>, <<>>, "", DefaultLimit)} :
         \E seed \in SeedsThatMatter : SearchIndex(req, seed)
  \/ (index = None => clock < MaxBuilds) /\
       \E b \in BatchRequests : \E seed \in SeedsThatMatter : GetBatch(b, seed)
  \/ GetStats
  \/ (index = None => clock < MaxBuilds) /\
       \E seed \in SeedsThatMatter : GetCategories(seed)
  \/ nwrites < MaxWrites /\ WriteNote(nZ, tToB)
  \/ nwrites < MaxWrites /\ AppendToNote(nB, tX, <<>>)
  \/ nwrites < MaxWrites /\ AddLink(nB, nZ, <<>>)

SpecIndexFile == InitIndexFile /\ [][NextIndexFile]_vars

\* A name that leads out of the owned vault, to samuel/sub/C
nOut == ToSamuel \o SubDir \o nC

\* A note that opens a reference and does not close it
tOpen == <<"s", "e", "e", " ", "[", "[">>

\* How many NoteWriter commands a run of the owned vault's model takes
MaxEdits == 2

\* Notes are written, appended to and linked while the owned vault holds a
\* note in a directory of its own and the other vault a note C
InitWrite ==
  /\ disk = [f \in Range(AllFiles) |->
              IF f \in {fA, fSubB} THEN tX ELSE IF f = fC THEN tToB ELSE Absent]
  /\ scanOrder = AllFiles
  /\ aliased = FALSE
  /\ index = None
  /\ clock = 0
  /\ last = NoCommand
  /\ nwrites = 0
  /\ writer = None

NextWrite ==
  \/ \E f \in {fB, fSubB} : EnvRemove(f)
  \/ \E n \in {nB, nZ} : \E v \in {"", "iris"} : ReadNote(n, v)
  \/ nwrites < MaxEdits /\ \E n \in {nB, nZ, nOut} : \E c \in {tX, tToB, tOpen} : WriteNote(n, c)
  \/ nwrites < MaxEdits /\ \E n \in {nB, nC, nOut} : AppendToNote(n, tX, <<>>)
  \/ nwrites < MaxEdits /\ \E n \in {nB, nOut} : AddLink(n, nA, <<>>)

SpecWrite == InitWrite /\ [][NextWrite]_vars

\* The index is rebuilt by one process while others query it and the vaults
\* change
InitRebuild ==
  /\ aliased \in BOOLEAN
  /\ disk = IndexedDisk
  /\ scanOrder = AllFiles
  /\ index = None
  /\ clock = 0
  /\ last = NoCommand
  /\ nwrites = 0
  /\ writer = None

NextRebuild ==
  \/ \E f \in Range(AllFiles) : \E c \in IndexEdits(f) : EnvPut(f, c)
  \/ \E f \in IndexRemovals : EnvRemove(f)
  \/ clock < MaxBuilds /\ \E seed \in HashSeeds : BuildOpens("", seed)
  \/ BuildCloses
  \/ index # None /\ \E req \in {Request(nB, <<>>, <<>>, <<>>, "", DefaultLimit)} :
       SearchIndex(req, 0)
  \/ index # None /\ \E b \in {BatchRequest(0, DefaultBatch, <<>>, "")} : GetBatch(b, 0)
  \/ GetStats
  \/ index # None /\ GetCategories(0)

SpecRebuild == InitRebuild /\ [][NextRebuild]_vars

\* Context is asked for while notes are renamed and edited and the index is
\* rebuilt now and then
ContextEdits(f) ==
  IF f = fB THEN {tX}
  ELSE IF f = fb THEN {tX, tTwoWords}
  ELSE IF f = fA THEN {tToB}
  ELSE IF f = fC THEN {tToB, Undecodable}
  ELSE {}
Topics == {nB, tX, nZ}

InitContext ==
  /\ aliased \in BOOLEAN
  /\ disk = [f \in Range(AllFiles) |->
              IF f = fB THEN tX ELSE IF f \in {fA, fC} THEN tToB ELSE Absent]
  /\ scanOrder = AllFiles
  /\ index = None
  /\ clock = 0
  /\ last = NoCommand
  /\ nwrites = 0
  /\ writer = None

NextContext ==
  \/ \E f \in Range(AllFiles) : \E c \in ContextEdits(f) : EnvPut(f, c)
  \/ \E f \in {fB, fb, fA} : EnvRemove(f)
  \/ clock < MaxBuilds /\ \E seed \in SeedsThatMatter : BuildIndex("", seed)
  \/ (index = None => clock < MaxBuilds) /\
       \E topic \in Topics : \E seed \in SeedsThatMatter : GetContext(topic, seed)

SpecContext == InitContext /\ [][NextContext]_vars

\* More notes than the live scan returns: one more than SearchCap notes named
\* qa, qb, ... in the iris vault, and the note A whose content holds the query
SearchLimit == 15
tQ == <<"q">>
tZ == <<"z">>
ManyFiles ==
  [i \in 1..(SearchCap + 1) |-> File(KbRoot, "iris", "", <<"q", LowerChars[i]>>)]
MergeRemovals == {ManyFiles[1], ManyFiles[2], fA}

InitMerge ==
  /\ aliased = TRUE
  /\ disk = [f \in Range(AllFiles) \cup Range(ManyFiles) |->
               IF f \in Range(ManyFiles) THEN tZ
               ELSE IF f = fA THEN tQ ELSE Absent]
  /\ scanOrder = ManyFiles \o AllFiles
  /\ index = None
  /\ clock = 0
  /\ last = NoCommand
  /\ nwrites = 0
  /\ writer = None

NextMerge ==
  \/ \E f \in MergeRemovals : EnvRemove(f)
  \/ EnvPut(ManyFiles[1], tZ)
  \/ \E q \in {tQ, tZ} : \E k \in {SearchLimit, DefaultLimit} :
       \E seed \in SeedsThatMatter : Search(q, "", k, seed)

SpecMerge == InitMerge /\ [][NextMerge]_vars

\* Notes with a metadata block: date and created; created alone; a date field
\* that holds no date; tags beside a matching rule; tags alone; tags left empty
tBothDates ==
  <<"-","-","-","\n","d","a","t","e",":"," ","2","0","2","4","-","0","1","-",
    "0","5","\n","c","r","e","a","t","e","d",":"," ","2","0","2","3","-","1",
    "2","-","3","1","\n","-","-","-","\n","x">>
tCreated ==
  <<"-","-","-","\n","c","r","e","a","t","e","d",":"," ","2","0","2","3","-",
    "1","2","-","3","1","\n","-","-","-","\n","x">>
tDateUnset ==
  <<"-","-","-","\n","d","a","t","e",":"," ","s","o","o","n","\n","c","r","e",
    "a","t","e","d",":"," ","2","0","2","3","-","1","2","-","3","1","\n","-",
    "-","-","\n","x">>
tTags ==
  <<"-","-","-","\n","t","a","g","s",":"," ","a","r","t",","," ","x",","," ",
    "x","\n","-","-","-","\n","a","r","t">>
tTagsOnly ==
  <<"-","-","-","\n","t","a","g","s",":"," ","x","\n","-","-","-","\n","z">>
tTagsEmpty ==
  <<"-","-","-","\n","t","a","g","s",":","\n","-","-","-","\n","z">>
MetaTexts == {tBothDates, tCreated, tDateUnset, tTags, tTagsOnly, tTagsEmpty, tX}

\* The index is built of notes that carry metadata
InitMeta ==
  /\ aliased \in BOOLEAN
  /\ disk = [f \in Range(AllFiles) |->
               IF f = Indexed(fB) THEN tX
               ELSE IF f = Indexed(fDated) THEN tCreated ELSE Absent]
  /\ scanOrder = AllFiles
  /\ index = None
  /\ clock = 0
  /\ last = NoCommand
  /\ nwrites = 0
  /\ writer = None

NextMeta ==
  \/ \E c \in MetaTexts : EnvPut(Indexed(fB), c)
  \/ EnvRemove(Indexed(fDated))
  \/ clock < MaxBuilds /\ \E seed \in HashSeeds : BuildIndex("", seed)

SpecMeta == InitMeta /\ [][NextMeta]_vars

\* A name that both vaults have: B in the samuel vault too
fSamB == File(KbRoot, "samuel", "", nB)
nBmd == nB \o MdExt
ResolveFiles == <<fSamB>> \o AllFiles
Namesake == {fB, fb, fSubB, fSamB}

InitResolve ==
  /\ aliased \in BOOLEAN
  /\ disk = [f \in Range(ResolveFiles) |->
               IF f = fB THEN tX ELSE IF f = fSamB THEN tToB ELSE Absent]
  /\ scanOrder \in {ResolveFiles, Reverse(ResolveFiles)}
  /\ index = None
  /\ clock = 0
  /\ last = NoCommand
  /\ nwrites = 0
  /\ writer = None

NextResolve ==
  \/ \E f \in Namesake : \E c \in {tX, tToB} : EnvPut(f, c)
  \/ \E f \in Namesake : EnvRemove(f)
  \/ \E n \in {nB, nb, nBmd} : \E v \in {"", "samuel"} : ReadNote(n, v)
  \/ \E n \in {nB, nb, nBmd} : GetGraph(n)

SpecResolve == InitResolve /\ [][NextResolve]_vars

\* A note is written, the index is built again and searched, and the notes
\* it returns are read
RootQueries ==
  {Request(nZ, <<>>, <<>>, <<>>, "", DefaultLimit),
   Request(<<>>, <<>>, <<>>, <<>>, "", DefaultLimit)}

InitRoots ==
  /\ aliased \in BOOLEAN
  /\ disk = IndexedDisk
  /\ scanOrder = AllFiles
  /\ index = None
  /\ clock = 0
  /\ last = NoCommand
  /\ nwrites = 0
  /\ writer = None

NextRoots ==
  \/ nwrites < MaxWrites /\ \E c \in {tToB, tX} : WriteNote(nZ, c)
  \/ clock < MaxBuilds /\ \E seed \in HashSeeds : BuildIndex("", seed)
  \/ (index = None => clock < MaxBuilds) /\
       \E req \in RootQueries : \E seed \in SeedsThatMatter : SearchIndex(req, seed)
  \/ \E n \in {nZ, nB, nC} : \E v \in {"iris", "samuel"} : ReadNote(n, v)

SpecRoots == InitRoots /\ [][NextRoots]_vars

\* The index is listed batch after batch: two notes with dates, three without
gGoals == <<"g","o","a","l","s">>
PagedRequests ==
  {BatchRequest(o, 2, <<>>, "") : o \in {0, 2, 4}}
  \cup {BatchRequest(o, 1, <<>>, "samuel") : o \in {0, 1}}
  \cup {BatchRequest(0, DefaultBatch, <<>>, "iris"),
        BatchRequest(0, 1, gGoals, "")}

InitBatch ==
  /\ aliased \in BOOLEAN
  /\ disk = [IndexedDisk EXCEPT ![Indexed(fB)] = tCreated]
  /\ scanOrder = AllFiles
  /\ index = None
  /\ clock = 0
  /\ last = NoCommand
  /\ nwrites = 0
  /\ writer = None

NextBatch ==
  \/ \E c \in {tX, tCreated, tBothDates} : EnvPut(Indexed(fB), c)
  \/ EnvRemove(Indexed(fSubB))
  \/ clock < MaxBuilds /\ \E seed \in HashSeeds : BuildIndex("", seed)
  \/ (index = None => clock < MaxBuilds) /\
       \E b \in PagedRequests : \E seed \in SeedsThatMatter : GetBatch(b, seed)

SpecBatch == InitBatch /\ [][NextBatch]_vars

\* --------------------------------------------------------- the index built

\* A build has just run: the vaults are as it saw them
JustBuilt == last.op = "build"

\* The note files of the indexed vaults that exist, and a note's identity
ExistingNotes == {f \in Range(AllFiles) : f.root = IndexRoot /\ disk[f] # Absent}
Identity(vault, path) == <<vault, path>>
RecordIds(notes) == {Identity(notes[i].vault, notes[i].path) : i \in 1..Len(notes)}

\* C1 (as the code has it): after build_index(scope) the index holds exactly
\* one record for every note file that exists, can be read and lies in a
\* vault of the scope (both vaults when there is no scope), told apart by
\* (vault, path), and none for any other file; as many (vault, name) pairs
\* occur as those files have (vault, base name) pairs, so two records share
\* (vault, name) exactly when two such files share a base name.
IndexHoldsTheReadableNotesInScope ==
  JustBuilt =>
    LET files == {f \in ExistingNotes :
                    /\ disk[f] # Undecodable
                    /\ f.vault \in Range(VaultsOf(last.vault))}
    IN /\ Len(index.notes) = Cardinality(files)
       /\ RecordIds(index.notes) = {Identity(f.vault, RelPath(f)) : f \in files}
       /\ {<<index.notes[i].vault, index.notes[i].name>> : i \in 1..Len(index.notes)}
            = {<<f.vault, f.stem>> : f \in files}
       /\ last.out.total_notes = Cardinality(files)

\* A build of the samuel vault alone, one of whose two notes cannot be read,
\* while the iris vault has three notes: one record
WitnessScopedBuild ==
  /\ JustBuilt /\ last.vault = "samuel"
  /\ disk[Indexed(fC)] = Undecodable
  /\ disk[Indexed(fB)] # Absent /\ disk[Indexed(fSubB)] # Absent
  /\ Len(index.notes) = 1 /\ index.notes[1].name = nDated

\* C1 as stated: after build_index, whatever its scope, the index holds
\* exactly one record for every note file that exists in the configured vaults,
\* none for a file that does not, and no two records share (vault, name).
IndexHoldsEveryNoteOnce ==
  JustBuilt =>
    /\ Len(index.notes) = Cardinality(ExistingNotes)
    /\ RecordIds(index.notes) = {Identity(f.vault, RelPath(f)) : f \in ExistingNotes}
    /\ \A i, j \in 1..Len(index.notes) :
         (index.notes[i].vault = index.notes[j].vault
            /\ index.notes[i].name = index.notes[j].name) => i = j

\* C15: a file that cannot be read does not stop a build: the build ends with
\* status 'built', and of the note files in its scope those that can be read
\* have a record in the index and those that cannot have none.
BuildSkipsUnreadableNotes ==
  JustBuilt =>
    /\ last.out.status = "built"
    /\ \A f \in ExistingNotes :
         f.vault \in Range(VaultsOf(last.vault)) =>
           (disk[f] # Undecodable
              <=> Identity(f.vault, RelPath(f)) \in RecordIds(index.notes))

\* A build of both vaults while samuel/sub/C cannot be read: the notes of the
\* iris vault, walked after it, are in the index
WitnessUnreadableSkipped ==
  /\ JustBuilt /\ last.vault = ""
  /\ disk[Indexed(fC)] = Undecodable
  /\ Identity("samuel", RelPath(Indexed(fC))) \notin RecordIds(index.notes)
  /\ Identity("iris", RelPath(Indexed(fB))) \in RecordIds(index.notes)
  /\ last.out.total_notes = Cardinality(ExistingNotes) - 1

\* C2: two builds with the same scope and no change of the vaults in between
\* leave the same records and stats; only built_at differs.
RebuildGivesTheSameRecords ==
  (JustBuilt /\ last.prior.op = "build" /\ last.prior.vault = last.vault) =>
    /\ index.notes = last.prior.index.notes
    /\ index.stats = last.prior.index.stats

\* -------------------------------------------------------- the index searched

Searched == last.op = "search_index"

\* The notes of the index that pass the filters of the last search
Passing ==
  {i \in 1..Len(index.notes) :
     PassesFilters(index.notes[i], last.req.category, last.req.date_from,
                   last.req.date_to, last.req.vault)}

Smaller(a, b) == IF a < b THEN a ELSE b

\* C6 (as the code has it): search_index with an empty query and limit k
\* returns min(k, n) notes, n being the notes of the index that pass the
\* filters: those of greatest word count, ordered by word count descending.
EmptyQueryListsTheLargestNotes ==
  (Searched /\ last.req.query = <<>>) =>
    LET out == last.out
        left == {i \in Passing :
                   Identity(index.notes[i].vault, index.notes[i].path) \notin RecordIds(out)}
    IN /\ Len(out) = Smaller(last.req.limit, Cardinality(Passing))
       /\ Cardinality(RecordIds(out)) = Len(out)
       /\ RecordIds(out) \subseteq
            {Identity(index.notes[i].vault, index.notes[i].path) : i \in Passing}
       /\ \A i, j \in 1..Len(out) : i < j => out[i].word_count >= out[j].word_count
       /\ \A i \in left : \A j \in 1..Len(out) :
            index.notes[i].word_count <= out[j].word_count

\* An empty query with limit 2 over an index of five notes: the note of five
\* words, then one of two words
WitnessLargestNotes ==
  /\ Searched /\ last.req.query = <<>> /\ last.req.limit = 2
  /\ Len(index.notes) = 5
  /\ Len(last.out) = 2
  /\ last.out[1].name = nAB /\ last.out[1].word_count = 5
  /\ last.out[2].word_count = 2

\* The word count of a result of the merged search, from its record
WordsOf(r) ==
  LET is == {i \in 1..Len(index.notes) :
               index.notes[i].vault = r.vault /\ index.notes[i].path = r.path}
  IN IF is = {} THEN 0 ELSE index.notes[CHOOSE i \in is : TRUE].word_count

\* C6 as stated: a search with an empty query and limit k, of the index or
\* merged, returns the k notes of greatest word count (all notes when there are
\* fewer), ordered by word count descending.
EmptySearchListsTheLargestNotes ==
  /\ (Searched /\ last.req.query = <<>>) =>
       \A i, j \in 1..Len(last.out) :
         i < j => last.out[i].word_count >= last.out[j].word_count
  /\ (last.op = "search" /\ last.query = <<>>) =>
       \A i, j \in 1..Len(last.out.results) :
         i < j => WordsOf(last.out.results[i]) >= WordsOf(last.out.results[j])

\* The notes of the index that pass the filters and whose name is the query,
\* letter case apart
NamedAsQuery ==
  {i \in Passing : Lower(index.notes[i].name) = Lower(last.req.query)}

\* C7 (as the code has it): when the index has a record of N that passes the
\* filters, search_index(N's name) with limit >= 1 returns the notes whose
\* name is the query, letter case apart, ahead of every note that matches only
\* as a substring; N is the first result when no other record has that name.
ExactNameRanksFirst ==
  (Searched /\ last.req.query # <<>> /\ last.req.limit >= 1 /\ NamedAsQuery # {}) =>
    LET out == last.out
    IN /\ Len(out) >= 1
       /\ Lower(out[1].name) = Lower(last.req.query)
       /\ \A i, j \in 1..Len(out) :
            (i < j /\ Lower(out[j].name) = Lower(last.req.query))
              => Lower(out[i].name) = Lower(last.req.query)
       /\ Cardinality(NamedAsQuery) = 1 =>
            \A i \in NamedAsQuery :
              /\ out[1].vault = index.notes[i].vault
              /\ out[1].path = index.notes[i].path

\* The name B is searched for while AB matches it in name, summary, tag and
\* heading: B is first, AB behind it
WitnessExactName ==
  /\ Searched /\ last.req.query = nb /\ last.req.limit = DefaultLimit
  /\ Cardinality(NamedAsQuery) = 1
  /\ Len(last.out) >= 2
  /\ last.out[1].name = nB /\ last.out[1]._score = NameScore + ExactNameScore
  /\ last.out[2].name = nAB
  /\ last.out[2]._score = NameScore + SummaryScore + TagScore + HeadingScore

\* C7 as stated: for every note N that exists, a search for N's exact name, of
\* the index or merged, returns N as the first result.
SearchForNameReturnsTheNoteFirst ==
  /\ (Searched /\ last.req.limit >= 1) =>
       \A f \in ExistingNotes :
         (disk[f] # Undecodable /\ f.stem = last.req.query
            /\ last.req.vault \in {"", f.vault} /\ last.req.category = <<>>
            /\ last.req.date_from = <<>> /\ last.req.date_to = <<>>)
           => /\ Len(last.out) >= 1
              /\ last.out[1].vault = f.vault /\ last.out[1].path = RelPath(f)
  /\ (last.op = "search" /\ last.limit >= 1) =>
       \A f \in ExistingNotes :
         (disk[f] # Undecodable /\ f.stem = last.query)
           => /\ Len(last.out.results) >= 1
              /\ last.out.results[1].vault = f.vault
              /\ last.out.results[1].path = RelPath(f)

\* The score of a note of the index in the last search
Scored(note) ==
  IF last.req.query = <<>> THEN note.word_count
  ELSE QueryScore(note, Lower(last.req.query))

\* A note of the index matches the query of the last search
Matches(note) == last.req.query = <<>> \/ Scored(note) > 0

\* The limit cut the result list, and cut the note off: the list is full of
\* results that score no less
CutOff(note) ==
  /\ Len(last.out) = last.req.limit
  /\ \A j \in 1..Len(last.out) : last.out[j]._score >= Scored(note)

\* The other filters of the last search, vault and category
PassesOthers(note) ==
  /\ last.req.vault \in {"", note.vault}
  /\ last.req.category = <<>> \/ last.req.category \in Range(note.categories)

\* C8: in a search with dateFrom and/or dateTo a note without a date is never
\* put aside by the date filter, it is returned when it passes the other
\* filters and scores above 0 (unless the limit cuts it off); a note with a
\* date is put aside exactly when its date is, as a string, below dateFrom or
\* above dateTo.
DateFilterSparesUndatedNotes ==
  (Searched /\ (last.req.date_from # <<>> \/ last.req.date_to # <<>>)) =>
    \A i \in 1..Len(index.notes) :
      LET note == index.notes[i]
          returned == Identity(note.vault, note.path) \in RecordIds(last.out)
          outside == \/ last.req.date_from # <<>> /\ StrLess(note.date, last.req.date_from)
                     \/ last.req.date_to # <<>> /\ StrLess(last.req.date_to, note.date)
      IN IF note.date = None
         THEN (PassesOthers(note) /\ Matches(note)) => (returned \/ CutOff(note))
         ELSE /\ outside => ~returned
              /\ (~outside /\ PassesOthers(note) /\ Matches(note)) => (returned \/ CutOff(note))

\* A search from 2024-01-06 on: the note dated 2024-01-05 is left out, the
\* four notes without a date are returned
WitnessDateFilter ==
  /\ Searched /\ last.req.query = <<>> /\ last.req.date_from = dLate
  /\ Len(index.notes) = 5
  /\ \E i \in 1..Len(index.notes) : index.notes[i].date = nDated
  /\ Len(last.out) = 4
  /\ \A j \in 1..Len(last.out) : last.out[j].date = None

\* The score the query of the last search earns a note, term by term
One(b) == IF b THEN 1 ELSE 0
TermScore(note) ==
  LET q == Lower(last.req.query)
  IN ExactNameScore * One(Lower(note.name) = q)
     + NameScore * One(Contains(Lower(note.name), q))
     + SummaryScore * One(Contains(Lower(note.summary), q))
     + TagScore * One(\E t \in Range(note.tags) : Contains(Lower(t), q))
     + HeadingScore * One(\E h \in Range(note.headings) : Contains(Lower(h.text), q))

\* The notes of the index that pass the filters and score above 0
Scoring == {i \in Passing : TermScore(index.notes[i]) > 0}

\* C25: for a query that is not empty search_index gives every note passing
\* the filters the score 20 (name equals query) + 10 (query in name) + 5 (in
\* summary) + 3 (in some tag) + 4 (in some heading text), letter case apart;
\* every returned note scores above 0 and passes the vault and category
\* filters; the results are the highest scoring ones, in non-increasing order
\* of score, cut to limit.
SearchScoresTermByTerm ==
  (Searched /\ ~last.raised /\ last.req.query # <<>>) =>
    LET out == last.out
    IN /\ Len(out) = Smaller(last.req.limit, Cardinality(Scoring))
       /\ \A j \in 1..Len(out) :
            /\ \E i \in Scoring :
                 out[j] = WithScore(index.notes[i], TermScore(index.notes[i]))
            /\ out[j]._score > 0
            /\ PassesOthers(out[j])
       /\ \A j, k \in 1..Len(out) :
            /\ j < k => out[j]._score >= out[k]._score
            /\ j # k => Identity(out[j].vault, out[j].path)
                          # Identity(out[k].vault, out[k].path)
       /\ \A i \in Scoring :
            \/ Identity(index.notes[i].vault, index.notes[i].path) \in RecordIds(out)
            \/ \A j \in 1..Len(out) : out[j]._score >= TermScore(index.notes[i])

\* The name b is searched for: B scores 30 and AB 22, the notes that score 0
\* are left out although they pass the filters
WitnessTermScores ==
  /\ Searched /\ ~last.raised /\ last.req.query = nb
  /\ Len(last.out) >= 2
  /\ last.out[1]._score > last.out[2]._score
  /\ \E i \in Passing : TermScore(index.notes[i]) = 0
  /\ \E j \in 1..Len(last.out) :
       last.out[j]._score = NameScore + SummaryScore + TagScore + HeadingScore

\* ------------------------------------------------ appending under a section

\* The notes appended to
aPlain == <<"i","n","t","r","o">>
aSection == <<"#","#"," ","S","\n","o","l","d","\n","\n","#","#"," ","T","\n","m","o","r","e","\n">>
aTitle == <<"#"," ","S","\n","o","l","d","\n">>
aDeep == <<"#","#","#"," ","S","\n","o","l","d","\n","#"," ","T","\n","m","o","r","e","\n">>
aPrefix == <<"#","#"," ","S","x","\n","o","l","d","\n">>
aOther == <<"i","n","t","r","o","\n","\n","#","#"," ","T","\n","t","\n">>
aTrailing == <<"#","#"," ","S","\n","o","l","d"," ","\n","\n","\n","#","#"," ","T","\n">>
AppendCorpus == {aPlain, aSection, aTitle, aDeep, aPrefix, aOther, aTrailing}

\* The section asked for (none: <<>>) and the content appended
secS == <<"S">>
AppendSections == {secS, <<>>}
tY == <<"y">>
tHeading == <<"#","#"," ","U","\n","u">>
AppendContents == {tX, tY, tHeading}

\* How many appends a run of the model takes
MaxAppends == 2

InitAppend ==
  /\ \E c \in AppendCorpus :
       disk = [f \in Range(AllFiles) |-> IF f = fA THEN c ELSE Absent]
  /\ scanOrder = AllFiles
  /\ aliased = FALSE
  /\ index = None
  /\ clock = 0
  /\ last = NoCommand
  /\ nwrites = 0
  /\ writer = None

NextAppend ==
  /\ nwrites < MaxAppends
  /\ \E sec \in AppendSections :
       \/ \E x \in AppendContents : AppendToNote(nA, x, sec)
       \/ AddLink(nA, nB, sec)

SpecAppend == InitAppend /\ [][NextAppend]_vars

\* An append that wrote, and the note as it left it
Appended == last.op = "append" /\ last.out.kind = "ok"
After == disk[last.path]

\* The end of the line that position i is on
LineEnd(s, i) ==
  CHOOSE e \in i..(Len(s) + 1) :
    /\ e = Len(s) + 1 \/ s[e] = NL
    /\ \A k \in i..(e - 1) : s[k] # NL

\* At i starts a line of two or more marks, one space and text that begins
\* with sec
IsSectionLine(s, i, sec) ==
  /\ IsLineStart(s, i)
  /\ \E h \in 2..Len(s) :
       /\ \A k \in 0..(h - 1) : i + k <= Len(s) /\ s[i + k] = "#"
       /\ StartsAt(s, i + h, <<" ">> \o sec)

HasSectionLine(s, sec) == \E i \in 1..Len(s) : IsSectionLine(s, i, sec)
FirstSectionLine(s, sec) ==
  CHOOSE i \in 1..Len(s) :
    IsSectionLine(s, i, sec) /\ \A j \in 1..(i - 1) : ~IsSectionLine(s, j, sec)

\* At q a line ends and the next one is two or more marks and a space
IsSectionBreak(s, q) ==
  /\ q <= Len(s) /\ s[q] = NL
  /\ \E h \in 2..Len(s) :
       /\ \A k \in 1..h : q + k <= Len(s) /\ s[q + k] = "#"
       /\ q + h + 1 <= Len(s) /\ s[q + h + 1] = " "

\* At i starts a heading line of any level 1-6 whose text is sec
IsHeadingLine(s, i, sec) ==
  IsLineStart(s, i) /\ HeadingMatch(s, i).ok /\ HeadingMatch(s, i).text = sec

HasHeading(s, sec) == \E i \in 1..Len(s) : IsHeadingLine(s, i, sec)
FirstHeadingLine(s, sec) ==
  CHOOSE i \in 1..Len(s) :
    IsHeadingLine(s, i, sec) /\ \A j \in 1..(i - 1) : ~IsHeadingLine(s, j, sec)

\* At q a line ends and the next one is a heading of any level
IsHeadingBreak(s, q) == q <= Len(s) /\ s[q] = NL /\ HeadingMatch(s, q + 1).ok

\* s with content put in as a paragraph of its own at pos
InsertedAt(s, pos, content) ==
  RStrip(SubSeq(s, 1, pos - 1)) \o <<NL, NL>> \o content \o <<NL>>
    \o SubSeq(s, pos, Len(s))

\* s with a new level-2 heading sec and content at its end
WithNewSection(s, sec, content) ==
  RStrip(s) \o <<NL, NL, "#", "#", " ">> \o sec \o <<NL, NL>> \o content \o <<NL>>

\* The previous command was an append to the same note under the same section
\* that found no line for it, and so made the heading
SecondAppend ==
  /\ Appended /\ last.section # <<>>
  /\ last.prior.op = "append"
  /\ last.prior.path = last.path /\ last.prior.section = last.section
  /\ ~HasSectionLine(last.prior.before, last.section)

\* C9 (as the code has it): append(note, X, section=S) on a note with no line
\* of two or more marks, a space and text beginning with S leaves the note
\* ending with a new "## S" heading, a blank line and X; a second append with
\* the same S puts its content at the end of that section, after X and not
\* right after the heading, when X holds no line of two or more marks and a
\* space.
AppendMakesSectionThenFillsIt ==
  /\ (Appended /\ last.section # <<>>
        /\ ~HasSectionLine(last.before, last.section)) =>
       /\ After = WithNewSection(last.before, last.section, last.content)
       /\ EndsWith(After, <<NL, "#", "#", " ">> \o last.section \o <<NL, NL>>
                             \o last.content \o <<NL>>)
  /\ (SecondAppend /\ ~HasSectionLine(<<NL>> \o last.prior.content, <<>>)) =>
       EndsWith(After, <<NL, "#", "#", " ">> \o last.section \o <<NL, NL>>
                         \o RStrip(last.prior.content) \o <<NL, NL>>
                         \o last.content \o <<NL>>)

\* x then y were appended under S to the note that had no heading
WitnessSecondAppend ==
  /\ SecondAppend
  /\ last.prior.before = aPlain /\ last.prior.content = tX /\ last.content = tY
  /\ After = <<"i","n","t","r","o","\n","\n","#","#"," ","S","\n","\n","x","\n","\n","y","\n">>

\* C9 as stated: on a note with no heading S the note ends with a new S heading
\* followed by X; a second append with the same S puts its content right after
\* the S heading, before what followed the heading.
AppendMakesSectionThenInsertsAfterHeading ==
  /\ (Appended /\ last.section # <<>> /\ ~HasHeading(last.before, last.section)) =>
       After = WithNewSection(last.before, last.section, last.content)
  /\ SecondAppend =>
       LET i == FirstSectionLine(last.before, last.section)
           e == LineEnd(last.before, i)
       IN After = SubSeq(last.before, 1, e - 1) \o <<NL, NL>> \o last.content
                    \o <<NL>> \o SubSeq(last.before, e, Len(last.before))

\* C10 (as the code has it): append(name, content, section=S), when the note
\* has a line of two or more marks, one space and text that begins with S,
\* takes the first such line as the section and puts content before the line
\* end that precedes the next line of two or more marks and a space, or at the
\* end of the note when none follows; a level-1 heading is neither taken as the
\* section nor as its end.
AppendGoesToEndOfSection ==
  (Appended /\ last.section # <<>> /\ HasSectionLine(last.before, last.section)) =>
    LET s == last.before
        e == LineEnd(s, FirstSectionLine(s, last.section))
    IN \E pos \in e..(Len(s) + 1) :
         /\ pos = Len(s) + 1 \/ IsSectionBreak(s, pos)
         /\ \A q \in e..(pos - 1) : ~IsSectionBreak(s, q)
         /\ After = InsertedAt(s, pos, last.content)

\* x was appended under S to the note whose "### S" is followed by "# T": it
\* went to the end of the note
WitnessEndOfSection ==
  /\ Appended /\ last.section = secS /\ last.content = tX
  /\ last.before = aDeep
  /\ After = <<"#","#","#"," ","S","\n","o","l","d","\n","#"," ","T","\n","m","o","r","e","\n","\n","x","\n">>

\* C10 as stated: the section is the first heading line of any level 1-6 whose
\* text is S, content goes before the next heading line of any level or to the
\* end of the note, and a note without such a heading gets a new one.
AppendGoesBeforeNextHeadingOfAnyLevel ==
  (Appended /\ last.section # <<>>) =>
    LET s == last.before
    IN IF HasHeading(s, last.section)
       THEN LET e == LineEnd(s, FirstHeadingLine(s, last.section))
            IN \E pos \in e..(Len(s) + 1) :
                 /\ pos = Len(s) + 1 \/ IsHeadingBreak(s, pos)
                 /\ \A q \in e..(pos - 1) : ~IsHeadingBreak(s, q)
                 /\ After = InsertedAt(s, pos, last.content)
       ELSE After = WithNewSection(s, last.section, last.content)

\* An append or a link that wrote
Added == last.op \in {"append", "link"} /\ last.out.kind = "ok"

\* s holds the elements of t in t's order
RECURSIVE IsSubseq(_, _)
IsSubseq(t, s) ==
  IF t = <<>> THEN TRUE
  ELSE IF s = <<>> THEN FALSE
  ELSE IF Head(t) = Head(s) THEN IsSubseq(Tail(t), Tail(s))
  ELSE IsSubseq(t, Tail(s))

\* C11 (as the code has it): append, with or without a section, and addLink
\* put the new text in at one place of the note: what followed that place is
\* kept as it was, what preceded it is kept up to its trailing whitespace,
\* which is dropped, and between the two stand a blank line, for a section
\* the note lacked its new heading, and the content followed by a line end.
AppendKeepsAllButWhitespaceBeforeIt ==
  Added =>
    \E pos \in 1..(Len(last.before) + 1) :
      LET head == RStrip(SubSeq(last.before, 1, pos - 1))
          tail == SubSeq(last.before, pos, Len(last.before))
          new == last.content \o <<NL>>
          n == Len(After)
      IN /\ n >= Len(head) + 2 + Len(new) + Len(tail)
         /\ SubSeq(After, 1, Len(head) + 2) = head \o <<NL, NL>>
         /\ SubSeq(After, n - Len(tail) + 1, n) = tail
         /\ SubSeq(After, n - Len(tail) - Len(new) + 1, n - Len(tail)) = new
         /\ \A k \in (Len(head) + 1)..(pos - 1) : last.before[k] \in Whitespace

\* y was appended under S to the note whose section S ends with a space and
\* blank lines: the space and a line end are gone
WitnessWhitespaceDropped ==
  /\ Added /\ last.op = "append" /\ last.section = secS /\ last.content = tY
  /\ last.before = aTrailing
  /\ After = <<"#","#"," ","S","\n","o","l","d","\n","\n","y","\n","\n","#","#"," ","T","\n">>

\* C11 as stated: every piece of text of the note before the operation is
\* still there afterwards, unchanged and in the same order.
AppendIsStrictlyAdditive == Added => IsSubseq(last.before, After)

\* ------------------------------------------------------- the link graph

\* The files present and readable, the notes whose content the program sees
Readable == {f \in Range(AllFiles) : disk[f] \notin {Absent, Undecodable}}

\* A refers to name: a [[target]] or [[target|alias]] of its content has a
\* target equal to name ignoring case
RefersTo(f, name) ==
  \E l \in Range(extract_links(disk[f])) : Lower(l) = Lower(name)

OrphanScope == {f \in Range(glob(KbRoot, "iris")) : disk[f] # Undecodable}
ReferredToByAnother(f) ==
  \E g \in OrphanScope : g # f /\ RefersTo(g, f.stem)

\* C4: orphans() returns exactly the notes in scope that no OTHER note refers
\* to, the entry point left out; a note's reference to itself does not count.
OrphansAreTheNotesNoOtherRefersTo ==
  last.op = "orphans" =>
    {o.name : o \in Range(last.out)} =
      {f.stem : f \in {g \in OrphanScope :
                         ~ReferredToByAnother(g) /\ Lower(g.stem) # EntryPoint}}

\* C5: the result of orphans() never holds the entry point, the note named
\* Index in any letter case, even when no note refers to it.
OrphansNeverHoldEntryPoint ==
  last.op = "orphans" =>
    \A i \in 1..Len(last.out) : Lower(last.out[i].name) # Lower(nIndex)

\* orphans() was asked while Index exists, nothing refers to it, and some
\* other note is an orphan
WitnessEntryPoint ==
  /\ last.op = "orphans"
  /\ disk[fIndex] = tX
  /\ \A f \in Readable : ~RefersTo(f, nIndex)
  /\ Len(last.out) > 0

\* --------------------------------------------------------------- the graph

\* graph(name) answered with a graph
Graphed == last.op = "graph" /\ last.out.kind = "ok"

\* The readable notes that refer to the name asked for
Referrers == {f \in Readable : RefersTo(f, last.name)}

\* C12 (as the code has it): graph(name) returns as outgoing every reference
\* target of the note's content, in the order and as often as written, whether
\* or not a note of that name exists; as incoming the name of each note that
\* refers to name, one entry per note; and totalConnections is the sum of the
\* two lengths.
GraphListsEveryReferenceOfTheNote ==
  Graphed =>
    /\ last.out.outgoing_links = extract_links(disk[find_note(last.name, "")])
    /\ Range(last.out.incoming_links) = {f.stem : f \in Referrers}
    /\ Len(last.out.incoming_links) = Cardinality(Referrers)
    /\ last.out.total_connections =
         Len(last.out.outgoing_links) + Len(last.out.incoming_links)

\* graph(C) was asked while C refers to B and no note B exists: B is listed
WitnessBrokenReferenceListed ==
  /\ Graphed /\ last.name = nC
  /\ disk[fC] = tToB /\ find_note(nB, "") = NoPath
  /\ nB \in Range(last.out.outgoing_links)
  /\ last.out.total_connections = Len(last.out.outgoing_links)

\* C12 as stated: outgoing holds only the reference targets that resolve to
\* existing notes, incoming the backlink sources, totalConnections their sum.
GraphOutgoingHoldsOnlyExistingNotes ==
  Graphed =>
    /\ \A l \in Range(last.out.outgoing_links) : find_note(l, "") # NoPath
    /\ Range(last.out.incoming_links) = {f.stem : f \in Referrers}
    /\ last.out.total_connections =
         Len(last.out.outgoing_links) + Len(last.out.incoming_links)

\* ---------------------------------------------------------- the index file

\* A command that answers from the index has just run
IndexQuery == last.op \in {"search_index", "batch", "stats", "categories"}

\* The index is one the command has just built of every readable note
Rebuilt ==
  /\ index \notin {None, Unparsable}
  /\ index.built_at = clock
  /\ RecordIds(index.notes) =
       {Identity(f.vault, RelPath(f)) : f \in {g \in ExistingNotes : disk[g] # Undecodable}}

\* C13: search, listBatch, stats and categories, finding the index file absent
\* or not parsable, build the whole index anew and answer from it; none of
\* them ends in an error.
IndexQueriesRebuildAnUnusableIndex ==
  (IndexQuery /\ last.found \in {"absent", "unparsable"}) =>
    /\ ~last.raised
    /\ Rebuilt
    /\ last.op = "stats" => "error" \notin DOMAIN last.out

\* What the commands that answer from the index alone return of index ix
IndexAnswers(ix) ==
  IF ix \in {None, Unparsable} THEN ix
  ELSE [stats |-> ix.stats,
        categories |-> ix.stats.categories,
        batches |-> [b \in BatchRequests |->
                       BatchOver(ix, b.offset, b.limit, b.category, b.vault)],
        found |-> SearchOver(ix, nB, <<>>, <<>>, <<>>, "", DefaultLimit)]

\* C19: write, append and addLink leave the index file as it is: what search,
\* listBatch, stats and categories answer from it after such an operation,
\* before a rebuild, is what they answered before.
WritersLeaveTheIndexAsItIs ==
  [][last'.op \in {"write", "append", "link"} =>
       /\ index' = index
       /\ IndexAnswers(index') = IndexAnswers(index)]_vars

\* Z was written after the index was built: the index is kept and has no
\* record of Z
WitnessIndexKeptStale ==
  /\ last.op = "write" /\ last.name = nZ /\ aliased
  /\ index \notin {None, Unparsable}
  /\ disk[fZ] = tToB
  /\ Identity("iris", RelPath(fZ)) \notin RecordIds(index.notes)
  /\ Len(index.notes) = index.stats.total_notes

\* C21: a command that loads the index file while a rebuild is writing it
\* never meets a partially written file: it loads the whole previous snapshot
\* or the whole new one.
ReaderNeverSeesAPartialIndex ==
  (writer # None /\ IndexQuery) =>
    /\ ~last.raised
    /\ last.found = "present"

\* ------------------------------------------------------------ the context

\* context(topic) answered
Contexted == last.op = "context" /\ last.out.kind = "ok"
DirectNames == {n.name : n \in Range(last.out.direct_matches)}

\* C22: every relatedNotes entry of context(topic) carries as related_via the
\* name of a note in directMatches, the related note holds a reference to
\* that name, and no direct match has more than 5 related entries.
RelatedNotesComeFromDirectMatches ==
  Contexted =>
    /\ \A e \in Range(last.out.related_notes) :
         /\ e.related_via \in DirectNames
         /\ \E f \in Readable :
              f.stem = e.name /\ f.vault = e.vault /\ RefersTo(f, e.related_via)
    /\ \A n \in DirectNames :
         Cardinality({i \in 1..Len(last.out.related_notes) :
                        last.out.related_notes[i].related_via = n}) <= BacklinkCap

\* C23: context(topic) returns totalNotesFound = |directMatches| +
\* |relatedNotes| with at most 10 direct matches, no note name twice across
\* the two lists, and the per-vault buckets partitioning directMatches; with
\* no match the lists are empty and the total is 0.
ContextCountsEachNoteOnce ==
  Contexted =>
    LET direct == last.out.direct_matches
        related == last.out.related_notes
        names == [i \in 1..(Len(direct) + Len(related)) |->
                    IF i <= Len(direct) THEN direct[i].name
                    ELSE related[i - Len(direct)].name]
    IN /\ last.out.total_notes_found = Len(direct) + Len(related)
       /\ Len(direct) <= ContextLimit
       /\ \A i, j \in DOMAIN names : names[i] = names[j] => i = j
       /\ Len(last.out.from_samuel_vault) + Len(last.out.from_iris_vault) = Len(direct)
       /\ \A n \in Range(direct) :
            (n \in Range(last.out.from_samuel_vault))
              # (n \in Range(last.out.from_iris_vault))

\* ----------------------------------------------------- the note's metadata

kDate == <<"d","a","t","e">>
kCreated == <<"c","r","e","a","t","e","d">>
kTags == <<"t","a","g","s">>

\* The date pattern in a field of the metadata block, None without the field
DateInField(frontmatter, key) ==
  IF key \in DOMAIN frontmatter THEN DateSearch(frontmatter[key]) ELSE None

\* C26: the date of a note is the first there is of: a date pattern in the
\* file name; a date pattern in the date field of the metadata; a date pattern
\* in the created field; else none. A note whose date field holds no date
\* pattern gets its date from created.
DateIsTheFirstThereIs ==
  JustBuilt =>
    \A i \in 1..Len(index.notes) :
      LET note == index.notes[i]
          byName == DateSearch(note.name)
          byDate == DateInField(note.frontmatter, kDate)
          byCreated == DateInField(note.frontmatter, kCreated)
      IN note.date = IF byName # None THEN byName
                     ELSE IF byDate # None THEN byDate
                     ELSE byCreated

\* The file a record of the index was made of
FileOf(note) ==
  CHOOSE f \in Range(AllFiles) :
    f.root = IndexRoot /\ f.vault = note.vault /\ RelPath(f) = note.path

\* The labels of the rules that match a file and its content
RuleLabels(f, content) ==
  LET path_str == Lower(PathStr(CfgRoot, f))
  IN (IF Contains(path_str, <<"4","1"," ","d","a","i","l","y">>)
         \/ Contains(path_str, <<"p","e","r","i","o","d","i","c">>)
         \/ DateAt(Lower(f.stem), 1)
      THEN {cJournal} ELSE {})
     \cup {c \in {cTemplate, cMeta} : Contains(path_str, c)}
     \cup (IF Contains(path_str, <<"e","x","c","a","l","i","d","r","a","w">>)
           THEN {cDrawing} ELSE {})
     \cup {CategoryRules[r].label : r \in
             {r \in 1..Len(CategoryRules) :
                \E w \in CategoryRules[r].words : Contains(Lower(content), w)}}

\* The labels listed in the tags entry of the metadata
TagLabels(frontmatter) ==
  IF kTags \in DOMAIN frontmatter
  THEN {Strip(t) : t \in Range(SplitOn(frontmatter[kTags], ","))}
  ELSE {}

\* C27: a note's categories are the labels of all the rules that match it and
\* the labels of its tags entry; a note that no rule matches carries
\* 'uncategorized'; the list is never empty and holds no label twice.
CategoriesAreRulesAndTags ==
  JustBuilt =>
    \A i \in 1..Len(index.notes) :
      LET note == index.notes[i]
          rules == RuleLabels(FileOf(note), disk[FileOf(note)])
          labels == note.categories
      IN /\ rules \cup TagLabels(note.frontmatter) \subseteq Range(labels)
         /\ rules = {} => cUncategorized \in Range(labels)
         /\ labels # <<>>
         /\ \A j, k \in 1..Len(labels) : labels[j] = labels[k] => j = k

\* --------------------------------------------------- the vault of a name

\* read(name) without a vault, or graph(name), answered with a note
Resolved ==
  /\ \/ last.op = "read" /\ last.vault = ""
     \/ last.op = "graph"
  /\ last.out.kind = "ok"

\* The notes of a vault that a name matches: by its name, by its file name,
\* or letter case apart
Matching(vault, name) ==
  {f \in Range(rglob(KbRoot, vault)) :
     \/ f.stem = Strip(name)
     \/ f.stem \o MdExt = Strip(name)
     \/ Lower(f.stem) = Lower(Strip(name))}

\* The result of the last command is made of the note f
MadeOf(f) ==
  /\ last.out.name = f.stem
  /\ last.out.vault = f.vault
  /\ IF last.op = "read"
     THEN last.out.path = RelPath(f) /\ last.out.content = disk[f]
     ELSE last.out.outgoing_links = extract_links(disk[f])

\* C28: when no vault is named, read(name) and graph(name) resolve to a note
\* of the first vault, iris before samuel, in which a note matches the name,
\* whatever the order the files are walked in, and report that vault.
NameResolvesToTheFirstVault ==
  Resolved =>
    LET first == IF Matching("iris", last.name) # {} THEN "iris" ELSE "samuel"
    IN /\ last.out.vault = first
       /\ \E f \in Matching(first, last.name) : MadeOf(f)

\* B is in both vaults, with different contents: read and graph answer with
\* the note of the iris vault
WitnessNameInBothVaults ==
  /\ Resolved /\ last.name = nB
  /\ disk[fB] = tX /\ disk[fSamB] = tToB
  /\ Matching("iris", nB) = {fB} /\ Matching("samuel", nB) = {fSamB}
  /\ last.out.vault = "iris"
  /\ last.op = "read" => last.out.content = tX
  /\ last.op = "graph" => last.out.outgoing_links = <<>>

\* ------------------------------------------------- the roots of the vaults

\* C29: after a write(name, content) that succeeded and a rebuild, the index
\* holds a record of (owned vault, name) and a search of the index for the
\* name returns it; and every note a search of the index returns can be read
\* under its (vault, name): the indexer and the knowledge base find each
\* vault in the same directory.
WrittenNotesAreIndexedAndIndexedNotesRead ==
  /\ (JustBuilt /\ nwrites > 0 /\ disk[WritePath(nZ)] # Absent) =>
       /\ \E i \in 1..Len(index.notes) :
            index.notes[i].vault = "iris" /\ index.notes[i].name = nZ
       /\ \E r \in Range(SearchOver(index, nZ, <<>>, <<>>, <<>>, "", DefaultLimit)) :
            r.vault = "iris" /\ r.name = nZ
  /\ (Searched /\ ~last.raised) =>
       \A r \in Range(last.out) :
         /\ read_note(r.name, r.vault).kind = "ok"
         /\ read_note(r.name, r.vault).vault = r.vault
         /\ read_note(r.name, r.vault).name = r.name

\* ------------------------------------------------------ the index listed

Listed == last.op = "batch" /\ ~last.raised

\* The notes of the index that pass the filters of a listing
Filtered(category, vault) ==
  {i \in 1..Len(index.notes) :
     /\ category = <<>> \/ category \in Range(index.notes[i].categories)
     /\ vault = "" \/ index.notes[i].vault = vault}

\* Note i comes before note j in a listing: its date is later, a note without
\* a date being the oldest; of two notes of one date the name that sorts
\* higher comes first, and the index's order decides what is left
DateOf(i) == IF index.notes[i].date = None THEN ZeroDate ELSE index.notes[i].date
ListedBefore(i, j) ==
  \/ StrLess(DateOf(j), DateOf(i))
  \/ DateOf(i) = DateOf(j) /\ StrLess(index.notes[j].name, index.notes[i].name)
  \/ DateOf(i) = DateOf(j) /\ index.notes[i].name = index.notes[j].name /\ i < j

\* The place of note i among the filtered notes, counted from 0
Place(i, S) == Cardinality({j \in S : ListedBefore(j, i)})

\* The batches at offsets 0, limit, 2 limit, ... one after the other
RECURSIVE Batches(_, _, _, _)
Batches(offset, limit, category, vault) ==
  LET b == BatchOver(index, offset, limit, category, vault)
  IN IF b.has_more
     THEN b.batch \o Batches(offset + limit, limit, category, vault)
     ELSE b.batch

\* C30: for a fixed index and filters get_batch lists the filtered notes by
\* date descending, the notes without a date last; the batches at offsets 0,
\* limit, 2 limit, ... are disjoint and hold every filtered note once; total
\* is the number of filtered notes and has_more holds exactly when
\* offset + limit < total.
BatchesPartitionTheNotesByDate ==
  Listed =>
    LET req == last.req
        out == last.out
        S == Filtered(req.category, req.vault)
        all == Batches(0, req.limit, req.category, req.vault)
    IN /\ out.total = Cardinality(S)
       /\ out.has_more = (req.offset + req.limit < out.total)
       /\ Len(out.batch) = Smaller(req.limit, IF out.total > req.offset
                                              THEN out.total - req.offset ELSE 0)
       /\ \A k \in 1..Len(out.batch) :
            \E i \in S : /\ Place(i, S) = req.offset + k - 1
                         /\ out.batch[k] = index.notes[i]
       /\ \A p, q \in 1..Len(out.batch) :
            p < q => /\ out.batch[p].date = None => out.batch[q].date = None
                     /\ out.batch[q].date # None =>
                          ~StrLess(out.batch[p].date, out.batch[q].date)
       /\ Len(all) = Cardinality(S)
       /\ \A i \in S : \E k \in 1..Len(all) : all[k] = index.notes[i]
       /\ SubSeq(all, req.offset + 1, req.offset + Len(out.batch)) = out.batch

\* Five notes listed two by two: the first batch holds the notes dated
\* 2024-01-05 and 2023-12-31, the second two of the notes without a date
WitnessBatches ==
  /\ Listed /\ last.req.limit = 2 /\ last.req.offset = 2
  /\ last.out.total = 5 /\ last.out.has_more
  /\ Len(last.out.batch) = 2
  /\ \A k \in 1..2 : last.out.batch[k].date = None
  /\ BatchOver(index, 0, 2, <<>>, "").batch[1].date = nDated
  /\ BatchOver(index, 0, 2, <<>>, "").batch[2].date = dEarly

\* ------------------------------------------------------ the merged search

Merging == last.op = "search"

\* The live scan of the vaults matches the note of a result
LiveMatch(r) ==
  \E f \in Range(WalkAll(KbRoot, VaultsOf(last.vault))) :
    /\ f.vault = r.vault /\ f.stem = r.name
    /\ disk[f] # Undecodable
    /\ \/ Contains(Lower(f.stem), Lower(last.query))
       \/ Contains(Lower(disk[f]), Lower(last.query))

\* C24: the merged search result holds no two entries of one (vault, name)
\* and at most limit entries; a note that the live scan matches is never
\* classified 'indexed', and is a title match whenever its title holds the
\* query.
MergedSearchPrefersTheLiveMatch ==
  Merging =>
    LET rs == last.out.results
    IN /\ \A i, j \in DOMAIN rs :
            rs[i].vault = rs[j].vault /\ rs[i].name = rs[j].name => i = j
       /\ Len(rs) <= last.limit
       /\ \A i \in DOMAIN rs :
            LiveMatch(rs[i]) =>
              /\ rs[i].match_type # "indexed"
              /\ Contains(Lower(rs[i].name), Lower(last.query))
                   => rs[i].match_type = "title"

\* ------------------------------------------------------ the missing note

\* What a list of backlinks can hold
BacklinkEntries == {NoteRef(f) : f \in Range(AllFiles)}

\* The command was given a name under which it finds no note
NoteMissing ==
  \/ last.op \in {"read", "backlinks"} /\ find_note(last.name, last.vault) = NoPath
  \/ last.op = "graph" /\ find_note(last.name, "") = NoPath
  \/ last.op \in {"append", "link"} /\ find_note(last.name, "iris") = NoPath

\* C16 (as the code has it): read and graph, given a name under which no note
\* exists, and append and addLink, given a name under which the owned vault
\* has no note, return an error value and not a success; a failed append or
\* addLink leaves every file as it was. backlinks returns the list of the
\* notes that refer to the name whether or not a note of that name exists:
\* the empty list when none refers to it.
MissingNoteIsAnErrorButForBacklinks ==
  /\ [](/\ (NoteMissing /\ last.op # "backlinks") => last.out.kind = "error"
        /\ last.op = "backlinks" =>
             /\ last.out \in Seq(BacklinkEntries)
             /\ Range(last.out) =
                  {NoteRef(f) : f \in {g \in Readable :
                     RefersTo(g, last.name) /\ g.vault \in Range(VaultsOf(last.vault))}})
  /\ [][(last'.op \in {"append", "link"} /\ last'.out.kind = "error")
          => disk' = disk]_vars

\* x was appended to C, a note of the other vault: an error, and C is as it was
WitnessAppendToMissingNote ==
  /\ last.op = "append" /\ last.name = nC /\ last.out.kind = "error"
  /\ disk[fC] = tToB
  /\ find_note(nC, "iris") = NoPath

\* C16 as stated: read, append, backlinks and graph, given a name under which
\* no note exists, return a NotFound error value, never a default such as an
\* empty list.
MissingNoteIsAlwaysAnError ==
  NoteMissing =>
    IF last.op = "backlinks" THEN last.out \notin Seq(BacklinkEntries)
    ELSE last.out.kind = "error"

\* ----------------------------------------------------- the owned vault

\* The note files of the vault that is only read
ReadOnlyNotes == {f \in Range(AllFiles) : f.vault = "samuel"}

\* C17: write, append and addLink, whatever name they are given, leave every
\* note file of the read-only vault with the content it had; they create and
\* modify files in the owned vault alone.
WritersLeaveTheReadOnlyVaultAlone ==
  [][last'.op \in {"write", "append", "link"} =>
       \A f \in ReadOnlyNotes : disk'[f] = disk[f]]_vars

\* The notes of the owned vault, at any depth, that bear the name written
Namesakes(files) == {f \in files : f.stem = last.name}

\* C18: write(name, content) answers 'updated' exactly when the owned vault
\* held, at any depth, a note of that name, and 'created' otherwise;
\* afterwards the owned vault holds exactly one note of that name and a read
\* by that name returns the content written.
WriteUpdatesTheOneNoteOfThatName ==
  last.op = "write" =>
    /\ last.out.action = "updated" <=> Namesakes(last.notes) # {}
    /\ Cardinality(Namesakes(Range(rglob(KbRoot, "iris")))) = 1
    /\ read_note(last.name, "").kind = "ok"
    /\ read_note(last.name, "").content = last.content

\* A link that wrote, and the name it refers to
Linked == last.op = "link" /\ last.out.kind = "ok"
LinkedTo == SubSeq(last.content, 5, Len(last.content) - 2)

\* C20: addLink(from, to, section) changes the vault as append(from, a
\* reference to 'to', section) does, and once it has succeeded the very next
\* backlinks(to) and graph(to).incoming include from, no index being rebuilt.
LinkShowsInBacklinksAtOnce ==
  Linked =>
    /\ last.content = <<"-", " ", "[", "[">> \o LinkedTo \o <<"]", "]">>
    /\ After = AppendText(last.before, last.content, last.section)
    /\ NoteRef(last.path) \in Range(get_backlinks(LinkedTo, ""))
    /\ get_graph(LinkedTo).kind = "ok" =>
         last.path.stem \in Range(get_graph(LinkedTo).incoming_links)

\* ------------------------------------------------------ how commands end

\* C14: every command ends with a structured result, success or error, in
\* every state of the files, a note that cannot be decoded included; none
\* ends in a raw exception. (Of the commands of knowledge.py those that
\* return one record: read, graph, write, append, link.)
CommandsEndWithAResult ==
  last.op \in {"read", "graph", "write", "append", "link"} =>
    last.out.kind \in {"ok", "error"}

====
